---------------------------- MODULE Spec2Model ----------------------------
(***************************************************************************)
(* Model of the rasterization core of finch (src/finch.c): pixel buffers,  *)
(* clipped drawing primitives, alpha compositing and buffer blits.         *)
(*                                                                         *)
(* A Pixel is the four bytes of a uint32_t in memory order on the          *)
(* little-endian targets the library is built for: <<b0, b1, b2, b3>> with *)
(* b0 = blue, b1 = green, b2 = red, b3 = alpha (0xAARRGGBB).               *)
(* A 32-bit unsigned value is a pair <<hi, lo>> of 16-bit limbs, so that   *)
(* the conversions of negative int32_t operands to uint32_t and the        *)
(* wrap-around of unsigned arithmetic are computed as the machine does.    *)
(***************************************************************************)
EXTENDS Integers, Sequences, FiniteSets, TLC

VARIABLES
    buffer,     \* the destination GraphicsBuffer: width, height, rowPixels, ptr
    srcBuffer,  \* the source GraphicsBuffer of the blits
    call,       \* the last call made: [op, color, args]
    before,     \* buffer.ptr as it was when the last call was entered
    touched,    \* indices of buffer.ptr the last call read or wrote
    srcRead,    \* indices of srcBuffer.ptr the last call read
    ret,        \* value returned by the last call
    initial,    \* buffer.ptr at construction
    latest,     \* (x,y) -> color of the most recent in-bounds PutPixel there
    nCalls,     \* number of calls made so far
    visited,    \* the points the loop of the last line call came to, in order
    sLastBufferID,  \* the static counter of buffer ids, a uint32_t
    heap,       \* the blocks of memory and the GraphicsBuffer handles made so far
    shell       \* the SDL shell: where main is and the application callbacks it has made

vars ==
    <<buffer, srcBuffer, call, before, touched, srcRead, ret, initial, latest, nCalls,
      visited, sLastBufferID, heap, shell>>

-----------------------------------------------------------------------------
(* Bounds of the model *)

\* how far outside the buffer the coordinates of a call range
Margin == 1
\* largest circle radius
MaxRadius == 2
\* longest sequence of calls in the sequence specifications
MaxCalls == 2
\* largest coordinate of the rectangles given to IntersectRects
MaxCoord == 3
\* largest radius of the circles drawn on the larger buffer
MaxCircleRadius == 7
\* longest sequence of NewGraphBuffer and DeleteGraphBuffer calls
MaxHeapCalls == 5
\* longest string given to DrawText
MaxTextLen == 2
\* most iterations of the main loop, most events handled in one of them, and
\* most ticks of the clock between two readings of it
MaxFrames == 3
MaxEvents == 2
MaxTickStep == 2
\* largest width and height of the buffers NewGraphBuffer allocates storage for
MaxSide == 2

-----------------------------------------------------------------------------
(* 32-bit unsigned arithmetic on 16-bit limbs *)

Limb == 256 * 256

\* (uint32_t)x for an int32_t x: two's complement
U32(x) ==
    IF x >= 0 THEN <<x \div Limb, x % Limb>>
    ELSE <<Limb - 1 - ((-(x + 1)) \div Limb), Limb - 1 - ((-(x + 1)) % Limb)>>

\* (int32_t)u for a uint32_t u
I32(u) ==
    IF u[1] >= Limb \div 2 THEN (u[1] - Limb) * Limb + u[2] ELSE u[1] * Limb + u[2]

ULt(u, v) == u[1] < v[1] \/ (u[1] = v[1] /\ u[2] < v[2])
UGe(u, v) == ~ULt(u, v)
UGt(u, v) == ULt(v, u)

UAdd(u, v) ==
    LET lo == u[2] + v[2]
    IN  <<(u[1] + v[1] + lo \div Limb) % Limb, lo % Limb>>

\* a slip: a difference that stops at 0 where uint32_t wraps around
USub_Saturating(u, v) ==
    IF ULt(u, v) THEN <<0, 0>>
    ELSE LET lo == u[2] - v[2]
             borrow == IF lo < 0 THEN 1 ELSE 0
         IN  <<(u[1] - v[1] - borrow + 2 * Limb) % Limb, (lo + Limb) % Limb>>

USub(u, v) ==
    LET lo == u[2] - v[2]
        borrow == IF lo < 0 THEN 1 ELSE 0
    IN  <<(u[1] - v[1] - borrow + 2 * Limb) % Limb, (lo + Limb) % Limb>>

\* u * k mod 2^32 for a factor 0 <= k < 2^15
UMulSmall(u, k) ==
    LET lo == u[2] * k
    IN  <<(u[1] * k + lo \div Limb) % Limb, lo % Limb>>

\* u / k (truncating) for a divisor 0 < k < 2^15
UDivSmall(u, k) ==
    LET r == u[1] % k
    IN  <<u[1] \div k, (r * Limb + u[2]) \div k>>

\* x | y for 0 <= x, y < 2^16
RECURSIVE BitOr(_, _)
BitOr(x, y) ==
    IF x = 0 THEN y
    ELSE IF y = 0 THEN x
    ELSE (IF x % 2 = 1 \/ y % 2 = 1 THEN 1 ELSE 0) + 2 * BitOr(x \div 2, y \div 2)

\* u | v, u << 8, u << 16, u >> 8, u >> 16, u & 0xff on uint32_t
UOr(u, v) == <<BitOr(u[1], v[1]), BitOr(u[2], v[2])>>
UShl8(u) == UMulSmall(u, 256)
UShl16(u) == <<u[2], 0>>
UShr8(u) == UDivSmall(u, 256)
UShr16(u) == <<0, u[1]>>
ULowByte(u) == <<0, u[2] % 256>>

\* conversion of a uint32_t to uint8_t
U8(u) == u[2] % 256

\* comparisons of an int32_t with a uint32_t field: the usual arithmetic
\* conversions turn the signed operand into uint32_t
SLtU(s, n) == ULt(U32(s), U32(n))
SGeU(s, n) == UGe(U32(s), U32(n))
SGtU(s, n) == UGt(U32(s), U32(n))

-----------------------------------------------------------------------------
(* Pixels and compositing *)

ZeroPixel == <<0, 0, 0, 0>>

\* a slip: the shift by 8 the source comment warns against, in place of / 255
LSCompositeValues_Shift8(a, b, m) ==
    UDivSmall(UAdd(UMulSmall(USub(U32(a), U32(b)), m), UMulSmall(U32(b), 255)), 256)

\* uint32_t LSCompositeValues(a, b, m): (m*(a-b) + 255*b) / 255 in uint32_t
LSCompositeValues(a, b, m) ==
    UDivSmall(UAdd(UMulSmall(USub(U32(a), U32(b)), m), UMulSmall(U32(b), 255)), 255)

\* a slip: the alpha byte is blended like the color bytes
LSCompositePixels_BlendAlpha(sp, dp) ==
    LET mask == sp[4]
    IN  <<U8(LSCompositeValues(sp[1], dp[1], mask)),
          U8(LSCompositeValues(sp[2], dp[2], mask)),
          U8(LSCompositeValues(sp[3], dp[3], mask)),
          U8(LSCompositeValues(sp[4], dp[4], mask))>>

\* uint32_t LSCompositePixels(sp, dp): bsrc[3] is the mask, np[3] = bdst[3]
LSCompositePixels(sp, dp) ==
    LET mask == sp[4]
    IN  <<U8(LSCompositeValues(sp[1], dp[1], mask)),
          U8(LSCompositeValues(sp[2], dp[2], mask)),
          U8(LSCompositeValues(sp[3], dp[3], mask)),
          dp[4]>>

LSCompositePixelsOpaque(sp, dp) == sp

\* a call through a CompositePixelsProc, the procedure given by its name
CallProc(compositeFunc, sp, dp) ==
    IF compositeFunc = "LSCompositePixelsOpaque"
    THEN LSCompositePixelsOpaque(sp, dp)
    ELSE LSCompositePixels(sp, dp)

-----------------------------------------------------------------------------
(* Colors as uint32_t values 0xAARRGGBB *)

MakeColor(r, g, b) ==
    UOr(UOr(UOr(<<255 * 256, 0>>, UShl16(U32(r))), UShl8(U32(g))), U32(b))

MakeColorWithAlpha(r, g, b, a) ==
    UOr(UOr(UOr(UShl16(UShl8(U32(a))), UShl16(U32(r))), UShl8(U32(g))), U32(b))

\* a slip: the components taken in the order of the bytes, blue first
Color2Values_BlueFirst(color) ==
    LET tmp1 == UShr8(color)
        tmp2 == UShr8(tmp1)
        tmp3 == UShr8(tmp2)
    IN  <<U8(ULowByte(color)), U8(ULowByte(tmp1)), U8(ULowByte(tmp2)), U8(ULowByte(tmp3))>>

\* components[0..3] = red, green, blue, alpha
Color2Values(color) ==
    LET tmp1 == UShr8(color)
        tmp2 == UShr8(tmp1)
        tmp3 == UShr8(tmp2)
    IN  <<U8(ULowByte(tmp2)), U8(ULowByte(tmp1)), U8(ULowByte(color)), U8(ULowByte(tmp3))>>

\* *rp, *gp, *bp
PixelComponents(pixel) ==
    <<U8(ULowByte(UShr16(pixel))), U8(ULowByte(UShr8(pixel))), U8(ULowByte(pixel))>>

-----------------------------------------------------------------------------
(* Pixel storage.  The effect of a call on a buffer is a record            *)
(*   [ptr    |-> the pixel storage after the call,                         *)
(*    log    |-> the indices of the storage it read or wrote, in order,    *)
(*    srcLog |-> the indices of the source storage it read (blits),        *)
(*    visited |-> the points a line loop came to, painted or clipped].     *)
(* An index outside the storage is logged and the access itself dropped.   *)

Range(s) == {s[i] : i \in DOMAIN s}

Load(mem, i) == IF i \in DOMAIN mem THEN mem[i] ELSE ZeroPixel

Store(mem, i, v) == IF i \in DOMAIN mem THEN [mem EXCEPT ![i] = v] ELSE mem

NoEffect(b) == [ptr |-> b.ptr, log |-> <<>>, srcLog |-> <<>>, visited |-> <<>>]

\* *pix = compositeFunc(color, *pix)
Plot(e, i, color, compositeFunc) ==
    [e EXCEPT !.ptr = Store(e.ptr, i, CallProc(compositeFunc, color, Load(e.ptr, i))),
              !.log = Append(e.log, i)]

\* the buffer as the next statement of a call finds it
After(b, e) == [b EXCEPT !.ptr = e.ptr]

\* the effect of a call made after the effect e
Then(e, f) ==
    [ptr |-> f.ptr, log |-> e.log \o f.log, srcLog |-> e.srcLog \o f.srcLog,
     visited |-> e.visited \o f.visited]

\* while(count--) { *pix = compositeFunc(color, *pix); pix += step; }
\* a negative count runs off the end of the storage: logged as index -1
RECURSIVE Run(_, _, _, _, _, _)
Run(e, color, compositeFunc, pix, step, count) ==
    IF count = 0 THEN e
    ELSE IF count < 0 THEN [e EXCEPT !.log = Append(e.log, -1)]
    ELSE Run(Plot(e, pix, color, compositeFunc), color, compositeFunc,
             pix + step, step, count - 1)

-----------------------------------------------------------------------------
(* PutPixel, GetPixel *)

\* a slip: the row is taken to be width pixels long
PutPixel_WidthAsStride(b, color, x, y) ==
    IF x < 0 \/ UGe(U32(x), U32(b.width)) \/ y < 0 \/ UGe(U32(y), U32(b.height))
    THEN NoEffect(b)
    ELSE Plot(NoEffect(b), y * b.width + x, color, "LSCompositePixelsOpaque")

PutPixel(b, color, x, y) ==
    IF x < 0 \/ UGe(U32(x), U32(b.width)) \/ y < 0 \/ UGe(U32(y), U32(b.height))
    THEN NoEffect(b)
    ELSE Plot(NoEffect(b), y * b.rowPixels + x, color, "LSCompositePixelsOpaque")

\* a slip: > for >= in the bounds test
GetPixel_OffByOne(b, x, y) ==
    IF x < 0 \/ UGt(U32(x), U32(b.width)) \/ y < 0 \/ UGt(U32(y), U32(b.height))
    THEN [ret |-> ZeroPixel, log |-> <<>>]
    ELSE [ret |-> Load(b.ptr, y * b.rowPixels + x), log |-> <<y * b.rowPixels + x>>]

\* returns [ret |-> the pixel, log |-> the indices read]
GetPixel(b, x, y) ==
    IF x < 0 \/ UGe(U32(x), U32(b.width)) \/ y < 0 \/ UGe(U32(y), U32(b.height))
    THEN [ret |-> ZeroPixel, log |-> <<>>]
    ELSE [ret |-> Load(b.ptr, y * b.rowPixels + x), log |-> <<y * b.rowPixels + x>>]

-----------------------------------------------------------------------------
(* Horizontal and vertical runs *)

\* a slip: x2 is not clipped to the right edge
DrawHorzLine_NoRightClip(b, color, x1, x2, y) ==
    IF x1 <= x2 /\ y >= 0 /\ SLtU(y, b.height) /\ x2 >= 0 /\ x1 < I32(U32(b.width))
    THEN LET cx1 == IF x1 < 0 THEN 0 ELSE x1
         IN  Run(NoEffect(b), color, "LSCompositePixels",
                 y * b.rowPixels + cx1, 1, x2 - cx1 + 1)
    ELSE NoEffect(b)

DrawHorzLine(b, color, x1, x2, y) ==
    IF x1 <= x2 /\ y >= 0 /\ SLtU(y, b.height) /\ x2 >= 0 /\ x1 < I32(U32(b.width))
    THEN LET cx1 == IF x1 < 0 THEN 0 ELSE x1
             cx2 == IF SGeU(x2, b.width) THEN I32(USub(U32(b.width), U32(1))) ELSE x2
         IN  Run(NoEffect(b), color, "LSCompositePixels",
                 y * b.rowPixels + cx1, 1, cx2 - cx1 + 1)
    ELSE NoEffect(b)

DrawVertLine(b, color, y1, y2, x) ==
    IF y1 <= y2 /\ x >= 0 /\ SLtU(x, b.width) /\ y2 >= 0 /\ SLtU(y1, b.height)
    THEN LET cy1 == IF y1 < 0 THEN 0 ELSE y1
             cy2 == IF SGeU(y2, b.height) THEN I32(USub(U32(b.height), U32(1))) ELSE y2
         IN  Run(NoEffect(b), color, "LSCompositePixels",
                 cy1 * b.rowPixels + x, b.rowPixels, cy2 - cy1 + 1)
    ELSE NoEffect(b)

-----------------------------------------------------------------------------
(* Bresenham lines *)

\* the while(1) loop of LSDrawLineCB
RECURSIVE LineLoop(_, _, _, _, _, _, _, _, _)
LineLoop(b, e, color, compositeFunc, mSlopeCase, ln, mCurrentX, mCurrentY, mPreference) ==
    LET outPointX == CASE mSlopeCase = 0 -> mCurrentX
                       [] mSlopeCase = 1 -> -mCurrentX
                       [] mSlopeCase = 2 -> mCurrentY
                       [] mSlopeCase = 3 -> mCurrentY
        outPointY == CASE mSlopeCase = 0 -> mCurrentY
                       [] mSlopeCase = 1 -> mCurrentY
                       [] mSlopeCase = 2 -> mCurrentX
                       [] mSlopeCase = 3 -> -mCurrentX
        e0 == [e EXCEPT !.visited = Append(e.visited, <<outPointX, outPointY>>)]
        e1 == IF outPointX < b.width /\ outPointY < b.height
                 /\ outPointX >= 0 /\ outPointY >= 0
              THEN Plot(e0, b.rowPixels * outPointY + outPointX, color, compositeFunc)
              ELSE e0
    IN  IF mCurrentX >= ln.mStopX THEN e
        ELSE IF mPreference < 0
        THEN LineLoop(b, e1, color, compositeFunc, mSlopeCase, ln,
                      mCurrentX + 1, mCurrentY, mPreference + ln.mDy2)
        ELSE LineLoop(b, e1, color, compositeFunc, mSlopeCase, ln,
                      mCurrentX + 1,
                      IF ln.mStartY < ln.mStopY THEN mCurrentY + 1 ELSE mCurrentY - 1,
                      mPreference + ln.mDyMinusDx2)

Abs(v) == IF v < 0 THEN -v ELSE v

\* a slip: the loop runs until the major coordinate has passed the stop value
LSDrawLineCB_StopInclusive(b, color, compositeFunc, x1, y1, x2, y2) ==
    LET steep == Abs(y1 - y2) > Abs(x1 - x2)
        \* after the swap of the x and y roles
        sStartX == IF steep THEN y1 ELSE x1
        sStartY == IF steep THEN x1 ELSE y1
        sStopX == IF steep THEN y2 ELSE x2
        sStopY == IF steep THEN x2 ELSE y2
        mAbsDx == IF steep THEN Abs(y1 - y2) ELSE Abs(x1 - x2)
        mAbsDy == IF steep THEN Abs(x1 - x2) ELSE Abs(y1 - y2)
        backwards == sStartX > sStopX
        mStartX == IF backwards THEN -sStartX ELSE sStartX
        mStopX == IF backwards THEN -sStopX ELSE sStopX
        mSlopeCase == (IF steep THEN 2 ELSE 0) + (IF backwards THEN 1 ELSE 0)
        ln == [mStopX |-> mStopX + 1, mStartY |-> sStartY, mStopY |-> sStopY,
               mDy2 |-> mAbsDy * 2, mDyMinusDx2 |-> 2 * (mAbsDy - mAbsDx)]
    IN  LineLoop(b, NoEffect(b), color, compositeFunc, mSlopeCase, ln,
                 mStartX, sStartY, mAbsDy * 2 - mAbsDx)

\* a slip: the decision variable starts one lower, so that a tie keeps the minor
\* coordinate
LSDrawLineCB_TiesStay(b, color, compositeFunc, x1, y1, x2, y2) ==
    LET steep == Abs(y1 - y2) > Abs(x1 - x2)
        \* after the swap of the x and y roles
        sStartX == IF steep THEN y1 ELSE x1
        sStartY == IF steep THEN x1 ELSE y1
        sStopX == IF steep THEN y2 ELSE x2
        sStopY == IF steep THEN x2 ELSE y2
        mAbsDx == IF steep THEN Abs(y1 - y2) ELSE Abs(x1 - x2)
        mAbsDy == IF steep THEN Abs(x1 - x2) ELSE Abs(y1 - y2)
        backwards == sStartX > sStopX
        mStartX == IF backwards THEN -sStartX ELSE sStartX
        mStopX == IF backwards THEN -sStopX ELSE sStopX
        mSlopeCase == (IF steep THEN 2 ELSE 0) + (IF backwards THEN 1 ELSE 0)
        ln == [mStopX |-> mStopX, mStartY |-> sStartY, mStopY |-> sStopY,
               mDy2 |-> mAbsDy * 2, mDyMinusDx2 |-> 2 * (mAbsDy - mAbsDx)]
    IN  LineLoop(b, NoEffect(b), color, compositeFunc, mSlopeCase, ln,
                 mStartX, sStartY, mAbsDy * 2 - mAbsDx - 1)

LSDrawLineCB(b, color, compositeFunc, x1, y1, x2, y2) ==
    LET steep == Abs(y1 - y2) > Abs(x1 - x2)
        \* after the swap of the x and y roles
        sStartX == IF steep THEN y1 ELSE x1
        sStartY == IF steep THEN x1 ELSE y1
        sStopX == IF steep THEN y2 ELSE x2
        sStopY == IF steep THEN x2 ELSE y2
        mAbsDx == IF steep THEN Abs(y1 - y2) ELSE Abs(x1 - x2)
        mAbsDy == IF steep THEN Abs(x1 - x2) ELSE Abs(y1 - y2)
        backwards == sStartX > sStopX
        mStartX == IF backwards THEN -sStartX ELSE sStartX
        mStopX == IF backwards THEN -sStopX ELSE sStopX
        mSlopeCase == (IF steep THEN 2 ELSE 0) + (IF backwards THEN 1 ELSE 0)
        ln == [mStopX |-> mStopX, mStartY |-> sStartY, mStopY |-> sStopY,
               mDy2 |-> mAbsDy * 2, mDyMinusDx2 |-> 2 * (mAbsDy - mAbsDx)]
    IN  LineLoop(b, NoEffect(b), color, compositeFunc, mSlopeCase, ln,
                 mStartX, sStartY, mAbsDy * 2 - mAbsDx)

DrawLineComposite(b, color, x1, y1, x2, y2) ==
    LSDrawLineCB(b, color, "LSCompositePixels", x1, y1, x2, y2)

DrawLine(b, color, x1, y1, x2, y2) ==
    LSDrawLineCB(b, color, "LSCompositePixelsOpaque", x1, y1, x2, y2)

-----------------------------------------------------------------------------
(* Rectangles *)

DrawRect(b, color, left0, top0, right0, bottom0) ==
    LET left == IF left0 > right0 THEN right0 ELSE left0
        right == (IF left0 > right0 THEN left0 ELSE right0) - 1
        top == IF top0 > bottom0 THEN bottom0 ELSE top0
        bottom == (IF top0 > bottom0 THEN top0 ELSE bottom0) - 1
        e1 == DrawHorzLine(b, color, left, right, top)
        e2 == Then(e1, DrawHorzLine(After(b, e1), color, left, right, bottom))
        e3 == Then(e2, DrawVertLine(After(b, e2), color, top + 1, bottom - 1, left))
        e4 == Then(e3, DrawVertLine(After(b, e3), color, top + 1, bottom - 1, right))
    IN  IF top + 1 <= bottom - 1 THEN e4 ELSE e2

\* while(height--) { pix = row; hCount = width; while(hCount--) *pix++ = color; row += rowPixels; }
RECURSIVE FillRows(_, _, _, _, _, _)
FillRows(e, color, row, rowPixels, width, height) ==
    IF height = 0 THEN e
    ELSE IF height < 0 THEN [e EXCEPT !.log = Append(e.log, -1)]
    ELSE FillRows(Run(e, color, "LSCompositePixelsOpaque", row, 1, width),
                  color, row + rowPixels, rowPixels, width, height - 1)

FillRectOpaque(b, color, left0, top0, right0, bottom0) ==
    LET left == IF left0 > right0 THEN right0 ELSE left0
        right == IF left0 > right0 THEN left0 ELSE right0
        top == IF top0 > bottom0 THEN bottom0 ELSE top0
        bottom == IF top0 > bottom0 THEN top0 ELSE bottom0
    IN  IF bottom >= 0 /\ SLtU(top, b.height) /\ right >= 0 /\ SLtU(left, b.width)
        THEN LET cleft == IF left < 0 THEN 0 ELSE left
                 ctop == IF top < 0 THEN 0 ELSE top
                 cright == IF SGtU(right, b.width) THEN I32(U32(b.width)) ELSE right
                 cbottom == IF SGtU(bottom, b.height) THEN I32(U32(b.height)) ELSE bottom
             IN  FillRows(NoEffect(b), color, ctop * b.rowPixels + cleft, b.rowPixels,
                          cright - cleft, cbottom - ctop)
        ELSE NoEffect(b)

ClearBuffer(b, color) ==
    FillRectOpaque(b, color, 0, 0, I32(U32(b.height)), I32(U32(b.width)))

-----------------------------------------------------------------------------
(* Circles *)

\* the macro LSSetPixel(buffer, x, y, color)
LSSetPixel(b, e, x, y, color) ==
    IF SLtU(x, b.width) /\ SLtU(y, b.height) /\ x >= 0 /\ y >= 0
    THEN Plot(e, b.rowPixels * y + x, color, "LSCompositePixels")
    ELSE e

\* the macro _PlotCirclePoints(x, y)
PlotCirclePoints(b, e, color, xCenter, yCenter, x, y) ==
    LET e1 == LSSetPixel(b, e, xCenter + x, yCenter + y, color)
        e2 == LSSetPixel(b, e1, xCenter - x, yCenter + y, color)
        e3 == LSSetPixel(b, e2, xCenter + x, yCenter - y, color)
        e4 == LSSetPixel(b, e3, xCenter - x, yCenter - y, color)
        e5 == LSSetPixel(b, e4, xCenter + y, yCenter + x, color)
        e6 == LSSetPixel(b, e5, xCenter - y, yCenter + x, color)
        e7 == LSSetPixel(b, e6, xCenter + y, yCenter - x, color)
    IN  LSSetPixel(b, e7, xCenter - y, yCenter - x, color)

\* the while( x < y ) loop of DrawCircle
RECURSIVE CircleLoop(_, _, _, _, _, _, _, _)
CircleLoop(b, e, color, xCenter, yCenter, x, y, p) ==
    IF x < y
    THEN LET x1 == x + 1
             y1 == IF p < 0 THEN y ELSE y - 1
             p1 == IF p < 0 THEN p + 2 * x1 + 1 ELSE p + 2 * (x1 - y1) + 1
         IN  CircleLoop(b, PlotCirclePoints(b, e, color, xCenter, yCenter, x1, y1),
                        color, xCenter, yCenter, x1, y1, p1)
    ELSE e

\* a slip: the octant starts one pixel beyond the radius
DrawCircle_StartsBeyond(b, color, xCenter, yCenter, radius) ==
    CircleLoop(b, PlotCirclePoints(b, NoEffect(b), color, xCenter, yCenter, 0, radius + 1),
               color, xCenter, yCenter, 0, radius + 1, 1 - radius)

DrawCircle(b, color, xCenter, yCenter, radius) ==
    CircleLoop(b, PlotCirclePoints(b, NoEffect(b), color, xCenter, yCenter, 0, radius),
               color, xCenter, yCenter, 0, radius, 1 - radius)

\* a slip: the two spans of the mirrored octant are left out
FillCircleLines_NoMirror(b, e, color, xCenter, yCenter, x, y) ==
    LET e1 == Then(e, DrawHorzLine(After(b, e), color, xCenter - x, xCenter + x, yCenter + y))
    IN  Then(e1, DrawHorzLine(After(b, e1), color, xCenter - x, xCenter + x, yCenter - y))

\* a slip: the spans stop one pixel short of their right end
FillCircleLines_ShortSpans(b, e, color, xCenter, yCenter, x, y) ==
    LET e1 == Then(e, DrawHorzLine(After(b, e), color, xCenter - x, xCenter + x - 1, yCenter + y))
        e2 == Then(e1, DrawHorzLine(After(b, e1), color, xCenter - x, xCenter + x - 1, yCenter - y))
        e3 == Then(e2, DrawHorzLine(After(b, e2), color, xCenter - y, xCenter + y - 1, yCenter + x))
    IN  Then(e3, DrawHorzLine(After(b, e3), color, xCenter - y, xCenter + y - 1, yCenter - x))

\* the four DrawHorzLine calls of one step of FillCircle
FillCircleLines(b, e, color, xCenter, yCenter, x, y) ==
    LET e1 == Then(e, DrawHorzLine(After(b, e), color, xCenter - x, xCenter + x, yCenter + y))
        e2 == Then(e1, DrawHorzLine(After(b, e1), color, xCenter - x, xCenter + x, yCenter - y))
        e3 == Then(e2, DrawHorzLine(After(b, e2), color, xCenter - y, xCenter + y, yCenter + x))
    IN  Then(e3, DrawHorzLine(After(b, e3), color, xCenter - y, xCenter + y, yCenter - x))

\* the while( x < y ) loop of FillCircle
RECURSIVE FillCircleLoop(_, _, _, _, _, _, _, _)
FillCircleLoop(b, e, color, xCenter, yCenter, x, y, p) ==
    IF x < y
    THEN LET x1 == x + 1
             y1 == IF p < 0 THEN y ELSE y - 1
             p1 == IF p < 0 THEN p + 2 * x1 + 1 ELSE p + 2 * (x1 - y1) + 1
         IN  FillCircleLoop(b, FillCircleLines(b, e, color, xCenter, yCenter, x1, y1),
                            color, xCenter, yCenter, x1, y1, p1)
    ELSE e

FillCircle(b, color, xCenter, yCenter, radius) ==
    FillCircleLoop(b, FillCircleLines(b, NoEffect(b), color, xCenter, yCenter, 0, radius),
                   color, xCenter, yCenter, 0, radius, 1 - radius)

-----------------------------------------------------------------------------
(* Text: the 8 x 8 bitmap font                                             *)

FONT_CHAR_WIDTH == 8
FONT_CHAR_HEIGHT == 8
FONT_FIRST_CHAR == 32
FONT_LAST_CHAR == 126

\* the glyph table: the source declares it, one byte per row and the most
\* significant bit leftmost; the rows stand for the bytes of any font
font8x8_basic ==
    [i \in 0 .. FONT_LAST_CHAR - FONT_FIRST_CHAR |->
        [row \in 0 .. FONT_CHAR_HEIGHT - 1 |->
            (129 + 29 * i + 53 * row) % 256]]

\* for (col = 0; col < FONT_CHAR_WIDTH; col++) if (rowData & (1 << (7 - col))) PutPixel(...)
RECURSIVE GlyphRow(_, _, _, _, _, _, _)
GlyphRow(b, e, color, x, yRow, rowData, col) ==
    IF col >= FONT_CHAR_WIDTH THEN e
    ELSE GlyphRow(b,
                  IF (rowData \div (2 ^ (7 - col))) % 2 = 1
                  THEN Then(e, PutPixel(After(b, e), color, x + col, yRow))
                  ELSE e,
                  color, x, yRow, rowData, col + 1)

\* for (row = 0; row < FONT_CHAR_HEIGHT; row++)
RECURSIVE GlyphLoop(_, _, _, _, _, _, _)
GlyphLoop(b, e, color, x, y, charData, row) ==
    LET e1 == GlyphRow(b, e, color, x, y + row, charData[row], 0)
    IN  IF row >= FONT_CHAR_HEIGHT THEN e
        \* the row is drawn (e1 has its value) before the next row is begun
        ELSE IF e1 = e1 THEN GlyphLoop(b, e1, color, x, y, charData, row + 1)
        ELSE e1

DrawChar(b, color, x, y, c) ==
    IF c < FONT_FIRST_CHAR \/ c > FONT_LAST_CHAR THEN NoEffect(b)
    ELSE GlyphLoop(b, NoEffect(b), color, x, y, font8x8_basic[c - FONT_FIRST_CHAR], 0)

\* a slip: a character outside the font does not move the pen
RECURSIVE TextLoop_SkipKeepsPen(_, _, _, _, _, _, _)
TextLoop_SkipKeepsPen(b, e, color, currentX, y, text, p) ==
    LET e1 == Then(e, DrawChar(After(b, e), color, currentX, y, text[p]))
    IN  IF text[p] = 0 THEN e
        ELSE IF e1 = e1
        THEN TextLoop_SkipKeepsPen(b, e1, color,
                                   IF text[p] < FONT_FIRST_CHAR \/ text[p] > FONT_LAST_CHAR
                                   THEN currentX ELSE currentX + FONT_CHAR_WIDTH,
                                   y, text, p + 1)
        ELSE e1

\* for (p = text; *p != '\0'; p++): text holds the characters and the
\* terminating 0, p is the position in it
RECURSIVE TextLoop(_, _, _, _, _, _, _)
TextLoop(b, e, color, currentX, y, text, p) ==
    LET e1 == Then(e, DrawChar(After(b, e), color, currentX, y, text[p]))
    IN  IF text[p] = 0 THEN e
        \* the character is drawn (e1 has its value) before the pen moves on
        ELSE IF e1 = e1
        THEN TextLoop(b, e1, color, currentX + FONT_CHAR_WIDTH, y, text, p + 1)
        ELSE e1

\* text is [null |-> the pointer is NULL, chars |-> what it points to]
DrawText(b, color, x, y, text) ==
    IF text.null THEN NoEffect(b)
    ELSE TextLoop(b, NoEffect(b), color, x, y, text.chars, 1)

-----------------------------------------------------------------------------
(* Blits *)

\* int32_t c = cols; while(c--) { *destRow++ = compositeFunc(*srcRow++, *destRow); }
RECURSIVE BlitCols(_, _, _, _, _, _)
BlitCols(s, e, compositeFunc, srcRow, destRow, c) ==
    IF c = 0 THEN e
    ELSE IF c < 0 THEN [e EXCEPT !.log = Append(e.log, -1), !.srcLog = Append(e.srcLog, -1)]
    ELSE BlitCols(s, [Plot(e, destRow, Load(s.ptr, srcRow), compositeFunc)
                        EXCEPT !.srcLog = Append(e.srcLog, srcRow)],
                  compositeFunc, srcRow + 1, destRow + 1, c - 1)

\* while(rows--) { ...; dest += destBuffer->rowPixels; src += srcBuffer->rowPixels; }
RECURSIVE BlitRows(_, _, _, _, _, _, _, _)
BlitRows(s, d, e, compositeFunc, src, dest, rows, cols) ==
    IF rows = 0 THEN e
    ELSE IF rows < 0 THEN [e EXCEPT !.log = Append(e.log, -1)]
    ELSE BlitRows(s, d, BlitCols(s, e, compositeFunc, src, dest, cols), compositeFunc,
                  src + s.rowPixels, dest + d.rowPixels, rows - 1, cols)

\* the part the two blits share: from the clip rectangle to the copy loops
BlitClipped(s, d, compositeFunc, xDestLoc, yDestLoc) ==
    LET src == (IF xDestLoc < 0 THEN -xDestLoc ELSE 0)
               + (IF yDestLoc < 0 THEN (-yDestLoc) * s.rowPixels ELSE 0)
        left == IF xDestLoc < 0 THEN 0 ELSE xDestLoc
        top == IF yDestLoc < 0 THEN 0 ELSE yDestLoc
        right0 == I32(UAdd(U32(xDestLoc), U32(s.width)))
        right == IF SGtU(right0, d.width) THEN I32(U32(d.width)) ELSE right0
        bottom0 == I32(UAdd(U32(yDestLoc), U32(s.height)))
        bottom == IF SGtU(bottom0, d.height) THEN I32(U32(d.height)) ELSE bottom0
    IN  IF right <= 0 \/ bottom <= 0
        THEN NoEffect(d)
        ELSE BlitRows(s, d, NoEffect(d), compositeFunc, src,
                      top * d.rowPixels + left, bottom - top, right - left)

BlitGraphBuffer(s, d, xDestLoc, yDestLoc) ==
    IF SGeU(xDestLoc, d.width) \/ SGeU(yDestLoc, d.height)
    THEN NoEffect(d)
    ELSE BlitClipped(s, d, "LSCompositePixelsOpaque", xDestLoc, yDestLoc)

\* a slip: the source pointer is not advanced past the clipped rows and columns
BlitGraphBufferComposite_NoSourceSkip(s, d, xDestLoc, yDestLoc) ==
    LET left == IF xDestLoc < 0 THEN 0 ELSE xDestLoc
        top == IF yDestLoc < 0 THEN 0 ELSE yDestLoc
        right0 == I32(UAdd(U32(xDestLoc), U32(s.width)))
        right == IF SGtU(right0, d.width) THEN I32(U32(d.width)) ELSE right0
        bottom0 == I32(UAdd(U32(yDestLoc), U32(s.height)))
        bottom == IF SGtU(bottom0, d.height) THEN I32(U32(d.height)) ELSE bottom0
    IN  IF \/ xDestLoc >= I32(U32(d.width)) \/ yDestLoc >= I32(U32(d.height))
           \/ yDestLoc <= -I32(U32(s.height)) \/ xDestLoc <= -I32(U32(s.width))
           \/ right <= 0 \/ bottom <= 0
        THEN NoEffect(d)
        ELSE BlitRows(s, d, NoEffect(d), "LSCompositePixels", 0,
                      top * d.rowPixels + left, bottom - top, right - left)

\* a slip: a source wholly right of or below the destination is not rejected
BlitGraphBufferComposite_NoFarCheck(s, d, xDestLoc, yDestLoc) ==
    IF yDestLoc <= -I32(U32(s.height)) \/ xDestLoc <= -I32(U32(s.width))
    THEN NoEffect(d)
    ELSE BlitClipped(s, d, "LSCompositePixels", xDestLoc, yDestLoc)

BlitGraphBufferComposite(s, d, xDestLoc, yDestLoc) ==
    IF xDestLoc >= I32(U32(d.width)) \/ yDestLoc >= I32(U32(d.height))
    THEN NoEffect(d)
    ELSE IF yDestLoc <= -I32(U32(s.height)) \/ xDestLoc <= -I32(U32(s.width))
    THEN NoEffect(d)
    ELSE BlitClipped(s, d, "LSCompositePixels", xDestLoc, yDestLoc)

-----------------------------------------------------------------------------
(* Buffer lifecycle.  The heap is a record                                  *)
(*   [blocks   |-> the blocks of memory there have been, each with its kind, *)
(*                 the number of times free() was called on it and by whom,  *)
(*    handles  |-> the GraphicsBuffer records NewGraphBuffer returned, in    *)
(*                 creation order: id, ptr, ownsPtr, their own block,        *)
(*    attempts |-> the number of NewGraphBuffer calls].                      *)
(* Block 1 is pixel storage of the caller; a pointer is a block index, NULL  *)
(* is 0.                                                                     *)

NULL == 0

CallerBlock == 1

EmptyHeap ==
    [blocks |-> <<[kind |-> "caller", frees |-> 0, freedBy |-> {}]>>,
     handles |-> <<>>,
     attempts |-> 0]

\* malloc() that succeeds: the new block is the last one
Malloc(h, kind) ==
    [h EXCEPT !.blocks = Append(h.blocks, [kind |-> kind, frees |-> 0, freedBy |-> {}])]

\* free(block), called for the given handle, or for NULL by NewGraphBuffer
Free(h, block, by) ==
    [h EXCEPT !.blocks[block].frees = @ + 1, !.blocks[block].freedBy = @ \cup {by}]

\* a slip: the id is read before the counter is advanced
NewGraphBuffer_IdBeforeIncrement(lastID, h, memory, recordOk, pixelsOk) ==
    LET id == lastID
        h0 == [h EXCEPT !.attempts = @ + 1]
        h1 == Malloc(h0, "GraphicsBuffer")
        self == Len(h1.blocks)
        h2 == Malloc(h1, "pixels")
        made(hp, ptr, owns) ==
            [hp EXCEPT !.handles = Append(hp.handles,
                [id |-> id, ptr |-> ptr, ownsPtr |-> owns, self |-> self,
                 attempt |-> hp.attempts, deleted |-> FALSE])]
    IN  IF ~recordOk
        THEN [sLastBufferID |-> UAdd(lastID, U32(1)), heap |-> h0, ret |-> NULL]
        ELSE IF memory = NULL
        THEN IF ~pixelsOk
             THEN [sLastBufferID |-> UAdd(lastID, U32(1)),
                   heap |-> Free(h1, self, NULL), ret |-> NULL]
             ELSE [sLastBufferID |-> UAdd(lastID, U32(1)),
                   heap |-> made(h2, Len(h2.blocks), TRUE),
                   ret |-> Len(h.handles) + 1]
        ELSE [sLastBufferID |-> UAdd(lastID, U32(1)), heap |-> made(h1, memory, FALSE),
              ret |-> Len(h.handles) + 1]

\* NewGraphBuffer(memory, ...) with the outcomes of its two malloc() calls;
\* returns the counter and the heap after the call and the handle or NULL
NewGraphBuffer(lastID, h, memory, recordOk, pixelsOk) ==
    LET id == UAdd(lastID, U32(1))
        h0 == [h EXCEPT !.attempts = @ + 1]
        h1 == Malloc(h0, "GraphicsBuffer")
        self == Len(h1.blocks)
        h2 == Malloc(h1, "pixels")
        made(hp, ptr, owns) ==
            [hp EXCEPT !.handles = Append(hp.handles,
                [id |-> id, ptr |-> ptr, ownsPtr |-> owns, self |-> self,
                 attempt |-> hp.attempts, deleted |-> FALSE])]
    IN  IF ~recordOk
        THEN [sLastBufferID |-> id, heap |-> h0, ret |-> NULL]
        ELSE IF memory = NULL
        THEN IF ~pixelsOk
             THEN [sLastBufferID |-> id, heap |-> Free(h1, self, NULL),
                   ret |-> NULL]
             ELSE [sLastBufferID |-> id, heap |-> made(h2, Len(h2.blocks), TRUE),
                   ret |-> Len(h.handles) + 1]
        ELSE [sLastBufferID |-> id, heap |-> made(h1, memory, FALSE),
              ret |-> Len(h.handles) + 1]

\* a slip: the pixel storage is freed whoever owns it
DeleteGraphBuffer_FreesUnowned(h, handle) ==
    IF handle = NULL THEN h
    ELSE LET hd == h.handles[handle]
             h1 == IF hd.ptr # NULL THEN Free(h, hd.ptr, handle) ELSE h
         IN  [Free(h1, hd.self, handle) EXCEPT !.handles[handle].deleted = TRUE]

\* DeleteGraphBuffer(buffer): the heap after the call
DeleteGraphBuffer(h, handle) ==
    IF handle = NULL THEN h
    ELSE LET hd == h.handles[handle]
             h1 == IF hd.ptr # NULL /\ hd.ownsPtr THEN Free(h, hd.ptr, handle) ELSE h
         IN  [Free(h1, hd.self, handle) EXCEPT !.handles[handle].deleted = TRUE]

-----------------------------------------------------------------------------
(* Rectangle geometry on LSRect records [left, top, right, bottom] *)

LSMin(a, b) == IF a < b THEN a ELSE b
LSMax(a, b) == IF a > b THEN a ELSE b

LSPointInRect(x, y, r) == x >= r.left /\ x < r.right /\ y >= r.top /\ y < r.bottom

\* returns [ret |-> the result, sect |-> *sect after the call]
IntersectRects(r1, r2, sect) ==
    IF \/ LSPointInRect(r1.left, r1.top, r2)
       \/ LSPointInRect(r1.left, r1.bottom, r2)
       \/ LSPointInRect(r1.right, r1.top, r2)
       \/ LSPointInRect(r1.right, r1.bottom, r2)
       \/ LSPointInRect(r2.left, r2.top, r1)
    THEN [ret |-> TRUE,
          sect |-> [left |-> LSMax(r1.left, r2.left), top |-> LSMax(r1.top, r2.top),
                    right |-> LSMin(r1.right, r2.right),
                    bottom |-> LSMin(r1.bottom, r2.bottom)]]
    ELSE [ret |-> FALSE, sect |-> sect]

-----------------------------------------------------------------------------
(* The buffers, colors and coordinates of the model *)

\* (width, height, rowPixels): wider than tall with padding, taller than wide
\* without padding, square with padding
Shapes ==
    { [width |-> 3, height |-> 2, rowPixels |-> 4],
      [width |-> 2, height |-> 3, rowPixels |-> 2],
      [width |-> 2, height |-> 2, rowPixels |-> 3] }

\* storage NewGraphBuffer allocates: memset to 0
ZeroStorage(n) == [i \in 0 .. n - 1 |-> ZeroPixel]

\* storage the caller supplies: every slot, padding included, holds a pixel of its own
CallerStorage(n) ==
    [i \in 0 .. n - 1 |->
        <<(10 + i) % 256, (40 + 2 * i) % 256, (90 + 3 * i) % 256, (200 + i) % 256>>]

NewBuffer(shape, storage) ==
    [width |-> shape.width, height |-> shape.height, rowPixels |-> shape.rowPixels,
     ptr |-> storage]

InitialBuffers ==
    UNION { { NewBuffer(sh, ZeroStorage(sh.rowPixels * sh.height)),
              NewBuffer(sh, CallerStorage(sh.rowPixels * sh.height)) } : sh \in Shapes }

\* the source of the blits: 3 x 2 with a padding slot per row and pixels that are
\* opaque, transparent and in between
SourceAlpha == <<255, 0, 128, 77, 0, 255, 64, 99>>

SourceBuffer ==
    [width |-> 3, height |-> 2, rowPixels |-> 4,
     ptr |-> [i \in 0 .. 7 |-> <<250 - 10 * i, 5 + 20 * i, 100 + i, SourceAlpha[i + 1]>>]]

\* an opaque, a half transparent and a fully transparent color
Colors == { <<0, 0, 255, 255>>, <<255, 0, 0, 128>>, <<9, 9, 9, 0>> }

Xs == -Margin .. buffer.width + Margin - 1
Ys == -Margin .. buffer.height + Margin - 1
Radii == -Margin .. MaxRadius
BlitXs == -(srcBuffer.width + Margin) .. buffer.width + Margin
BlitYs == -(srcBuffer.height + Margin) .. buffer.height + Margin

\* the pixels LSCompositePixels is applied to on its own: every byte in one
\* channel, other bytes in the other two, and the alphas at and between the ends
Bytes == 0 .. 255
SourceAlphas == {0, 128, 255}
DestAlphas == {0, 200}
SourcePixels == { <<c, 255 - c, (c + 85) % 256, a>> : c \in Bytes, a \in SourceAlphas }
DestPixels == { <<c, (c + 170) % 256, 255 - c, a>> : c \in Bytes, a \in DestAlphas }

InBounds(b, x, y) == 0 <= x /\ x < b.width /\ 0 <= y /\ y < b.height

Points(b) == {<<x, y>> : x \in 0 .. b.width - 1, y \in 0 .. b.height - 1}

ValidIndices(b) == {p[2] * b.rowPixels + p[1] : p \in Points(b)}

-----------------------------------------------------------------------------
(* The SDL shell (src/sdl2main.c): main, Setup, MainLoop, Render, Cleanup   *)

MIN_TICKS_PER_FRAME == 1

\* main has not been entered: pc is the place main is at, log the application
\* callbacks made so far, each with the iteration of the main loop it was made
\* in (0 before the loop) and what it returned, frame the iteration, polled
\* the events handled in it, ticks the clock and exit what main returned
NotStarted ==
    [pc |-> "main", log |-> <<>>, frame |-> 0, polled |-> 0, ticks |-> 0,
     lastTicks |-> 0, exit |-> 0]

\* the shell calls the application's callback cb, which returns result
Callback(sh, cb, result) ==
    [sh EXCEPT !.log = Append(@, [cb |-> cb, frame |-> sh.frame, result |-> result])]

-----------------------------------------------------------------------------
(* The state machine: a caller with a destination buffer and a source      *)
(* buffer makes calls into the library.                                    *)

\* the counter and the heap once the source buffer, on storage of the caller,
\* and then the destination buffer have been made
TwoBuffers(b) ==
    LET first == NewGraphBuffer(U32(0), EmptyHeap, CallerBlock, TRUE, TRUE)
    IN  NewGraphBuffer(first.sLastBufferID, first.heap,
                       IF b.ptr[0] = ZeroPixel THEN NULL ELSE CallerBlock, TRUE, TRUE)

Idle == [op |-> "none", color |-> ZeroPixel, args |-> <<>>]

Init ==
    /\ buffer \in InitialBuffers
    /\ srcBuffer = SourceBuffer
    /\ call = Idle
    /\ before = buffer.ptr
    /\ touched = {}
    /\ srcRead = {}
    /\ ret = ZeroPixel
    /\ initial = buffer.ptr
    /\ latest = [p \in Points(buffer) |-> buffer.ptr[p[2] * buffer.rowPixels + p[1]]]
    /\ nCalls = 0
    /\ visited = <<>>
    /\ sLastBufferID = TwoBuffers(buffer).sLastBufferID
    /\ heap = TwoBuffers(buffer).heap
    /\ shell = NotStarted

\* a drawing call with effect e has run
Effect(e) ==
    /\ buffer' = After(buffer, e)
    /\ touched' = Range(e.log)
    /\ srcRead' = Range(e.srcLog)
    /\ nCalls' = nCalls + 1
    /\ UNCHANGED <<srcBuffer, initial, ret, sLastBufferID, heap, shell>>

\* ... and the caller keeps its arguments and the storage it found
Return(op, color, args, e) ==
    /\ Effect(e)
    /\ call' = [op |-> op, color |-> color, args |-> args]
    /\ before' = buffer.ptr
    /\ visited' = e.visited

\* ... and the caller keeps its name only
SeqReturn(op, e) ==
    /\ Effect(e)
    /\ call' = [op |-> op, color |-> ZeroPixel, args |-> <<>>]
    /\ UNCHANGED <<before, latest, visited>>

\* the most recent in-bounds PutPixel at each pixel
Latest(color, x, y) ==
    IF InBounds(buffer, x, y) THEN [latest EXCEPT ![<<x, y>>] = color] ELSE latest

(* One call on a buffer as constructed or as the caller supplied it, with    *)
(* every combination of arguments up to Margin outside the buffer.           *)

OnePutPixel ==
    nCalls = 0 /\ \E c \in Colors, x \in Xs, y \in Ys :
        /\ Return("PutPixel", c, <<x, y>>, PutPixel(buffer, c, x, y))
        /\ latest' = Latest(c, x, y)

OneGetPixel ==
    nCalls = 0 /\ \E x \in Xs, y \in Ys :
        /\ ret' = GetPixel(buffer, x, y).ret
        /\ touched' = Range(GetPixel(buffer, x, y).log)
        /\ call' = [op |-> "GetPixel", color |-> ZeroPixel, args |-> <<x, y>>]
        /\ before' = buffer.ptr
        /\ srcRead' = {}
        /\ nCalls' = nCalls + 1
        /\ UNCHANGED <<buffer, srcBuffer, initial, latest, visited, sLastBufferID, heap, shell>>

OneClearBuffer ==
    nCalls = 0 /\ \E c \in Colors :
        /\ Return("ClearBuffer", c, <<>>, ClearBuffer(buffer, c))
        /\ UNCHANGED latest

OneDrawHorzLine ==
    nCalls = 0 /\ \E c \in Colors, x1 \in Xs, x2 \in Xs, y \in Ys :
        /\ Return("DrawHorzLine", c, <<x1, x2, y>>, DrawHorzLine(buffer, c, x1, x2, y))
        /\ UNCHANGED latest

OneDrawVertLine ==
    nCalls = 0 /\ \E c \in Colors, y1 \in Ys, y2 \in Ys, x \in Xs :
        /\ Return("DrawVertLine", c, <<y1, y2, x>>, DrawVertLine(buffer, c, y1, y2, x))
        /\ UNCHANGED latest

OneDrawLine ==
    nCalls = 0 /\ \E c \in Colors, x1 \in Xs, y1 \in Ys, x2 \in Xs, y2 \in Ys :
        /\ Return("DrawLine", c, <<x1, y1, x2, y2>>, DrawLine(buffer, c, x1, y1, x2, y2))
        /\ UNCHANGED latest

OneDrawLineComposite ==
    nCalls = 0 /\ \E c \in Colors, x1 \in Xs, y1 \in Ys, x2 \in Xs, y2 \in Ys :
        /\ Return("DrawLineComposite", c, <<x1, y1, x2, y2>>,
                  DrawLineComposite(buffer, c, x1, y1, x2, y2))
        /\ UNCHANGED latest

OneDrawRect ==
    nCalls = 0 /\ \E c \in Colors, l \in Xs, t \in Ys, r \in Xs, bt \in Ys :
        /\ Return("DrawRect", c, <<l, t, r, bt>>, DrawRect(buffer, c, l, t, r, bt))
        /\ UNCHANGED latest

OneFillRectOpaque ==
    nCalls = 0 /\ \E c \in Colors, l \in Xs, t \in Ys, r \in Xs, bt \in Ys :
        /\ Return("FillRectOpaque", c, <<l, t, r, bt>>, FillRectOpaque(buffer, c, l, t, r, bt))
        /\ UNCHANGED latest

OneDrawCircle ==
    nCalls = 0 /\ \E c \in Colors, x \in Xs, y \in Ys, r \in Radii :
        /\ Return("DrawCircle", c, <<x, y, r>>, DrawCircle(buffer, c, x, y, r))
        /\ UNCHANGED latest

OneFillCircle ==
    nCalls = 0 /\ \E c \in Colors, x \in Xs, y \in Ys, r \in Radii :
        /\ Return("FillCircle", c, <<x, y, r>>, FillCircle(buffer, c, x, y, r))
        /\ UNCHANGED latest

OneBlitGraphBuffer ==
    nCalls = 0 /\ \E x \in BlitXs, y \in BlitYs :
        /\ Return("BlitGraphBuffer", ZeroPixel, <<x, y>>,
                  BlitGraphBuffer(srcBuffer, buffer, x, y))
        /\ UNCHANGED latest

OneBlitGraphBufferComposite ==
    nCalls = 0 /\ \E x \in BlitXs, y \in BlitYs :
        /\ Return("BlitGraphBufferComposite", ZeroPixel, <<x, y>>,
                  BlitGraphBufferComposite(srcBuffer, buffer, x, y))
        /\ UNCHANGED latest

Next ==
    \/ OnePutPixel
    \/ OneGetPixel
    \/ OneClearBuffer
    \/ OneDrawHorzLine
    \/ OneDrawVertLine
    \/ OneDrawLine
    \/ OneDrawLineComposite
    \/ OneDrawRect
    \/ OneFillRectOpaque
    \/ OneDrawCircle
    \/ OneFillCircle
    \/ OneBlitGraphBuffer
    \/ OneBlitGraphBufferComposite

Spec == Init /\ [][Next]_vars

-----------------------------------------------------------------------------
(* LSCompositePixels on its own *)

OneLSCompositePixels ==
    nCalls = 0 /\ \E sp \in SourcePixels, dp \in DestPixels :
        /\ ret' = LSCompositePixels(sp, dp)
        /\ call' = [op |-> "LSCompositePixels", color |-> sp, args |-> dp]
        /\ nCalls' = nCalls + 1
        /\ UNCHANGED <<buffer, srcBuffer, before, touched, srcRead, initial, latest, visited,
                       sLastBufferID, heap, shell>>

InitComposite == Init /\ buffer.width = 3 /\ buffer.ptr[0] = ZeroPixel

NextComposite == OneLSCompositePixels

SpecComposite == InitComposite /\ [][NextComposite]_vars

-----------------------------------------------------------------------------
(* LSCompositeValues on its own: every pair of channel values, and masks at *)
(* both ends, around the middle and in between                             *)

Masks == {0, 1, 2, 77, 127, 128, 129, 200, 254, 255}

OneLSCompositeValues ==
    nCalls = 0 /\ \E a \in Bytes, b \in Bytes, m \in Masks :
        /\ ret' = LSCompositeValues(a, b, m)
        /\ call' = [op |-> "LSCompositeValues", color |-> ZeroPixel, args |-> <<a, b, m>>]
        /\ nCalls' = nCalls + 1
        /\ UNCHANGED <<buffer, srcBuffer, before, touched, srcRead, initial, latest, visited,
                       sLastBufferID, heap, shell>>

NextValues == OneLSCompositeValues

SpecValues == InitComposite /\ [][NextValues]_vars

-----------------------------------------------------------------------------
(* The color functions on their own *)

ChannelValues == {0, 1, 15, 16, 127, 128, 200, 254, 255}

\* a caller makes a color both ways and takes each apart again
OneMakeColor ==
    nCalls = 0 /\ \E r \in ChannelValues, g \in ChannelValues,
                      b \in ChannelValues, a \in ChannelValues :
        /\ ret' = [opaque |-> MakeColor(r, g, b),
                   withAlpha |-> MakeColorWithAlpha(r, g, b, a),
                   opaqueWithAlpha |-> MakeColorWithAlpha(r, g, b, 255),
                   values |-> Color2Values(MakeColorWithAlpha(r, g, b, a)),
                   components |-> PixelComponents(MakeColor(r, g, b))]
        /\ call' = [op |-> "MakeColor", color |-> ZeroPixel, args |-> <<r, g, b, a>>]
        /\ nCalls' = nCalls + 1
        /\ UNCHANGED <<buffer, srcBuffer, before, touched, srcRead, initial, latest, visited,
                       sLastBufferID, heap, shell>>

NextColor == OneMakeColor

SpecColor == InitComposite /\ [][NextColor]_vars

-----------------------------------------------------------------------------
(* Circles on a buffer large enough to hold them: 9 x 8 with a padding slot *)
(* per row, centers from Margin outside one corner to Margin outside the    *)
(* other, radii from 0                                                      *)

CircleShape == [width |-> 9, height |-> 8, rowPixels |-> 10]

CircleRadii == 0 .. MaxCircleRadius

InitCircle ==
    /\ buffer = NewBuffer(CircleShape, CallerStorage(CircleShape.rowPixels * CircleShape.height))
    /\ srcBuffer = SourceBuffer
    /\ call = Idle
    /\ before = buffer.ptr
    /\ touched = {}
    /\ srcRead = {}
    /\ ret = ZeroPixel
    /\ initial = buffer.ptr
    /\ latest = [p \in Points(buffer) |-> buffer.ptr[p[2] * buffer.rowPixels + p[1]]]
    /\ nCalls = 0
    /\ visited = <<>>
    /\ sLastBufferID = TwoBuffers(buffer).sLastBufferID
    /\ heap = TwoBuffers(buffer).heap
    /\ shell = NotStarted

CircleDrawCircle ==
    nCalls = 0 /\ \E c \in Colors, x \in Xs, y \in Ys, r \in CircleRadii :
        /\ Return("DrawCircle", c, <<x, y, r>>, DrawCircle(buffer, c, x, y, r))
        /\ UNCHANGED latest

CircleFillCircle ==
    nCalls = 0 /\ \E c \in Colors, x \in Xs, y \in Ys, r \in CircleRadii :
        /\ Return("FillCircle", c, <<x, y, r>>, FillCircle(buffer, c, x, y, r))
        /\ UNCHANGED latest

NextCircle == CircleDrawCircle \/ CircleFillCircle

SpecCircle == InitCircle /\ [][NextCircle]_vars

-----------------------------------------------------------------------------
(* Text on the 9 x 8 buffer: one DrawText call with a NULL pointer or a     *)
(* string of up to MaxTextLen characters: the first and the last of the     *)
(* font and the ones next to them outside it                               *)

OneDrawText ==
    LET TextChars == {31, FONT_FIRST_CHAR, FONT_LAST_CHAR, 127}
        Strings == UNION { [1 .. n -> TextChars] : n \in 0 .. MaxTextLen }
        Texts == {[null |-> TRUE, chars |-> <<>>]}
                     \cup {[null |-> FALSE, chars |-> s \o <<0>>] : s \in Strings}
        \* a row of text cut at the top, fitting, and cut at the bottom
        TextYs == {-Margin, 0, buffer.height - FONT_CHAR_HEIGHT + Margin}
    IN  nCalls = 0 /\ \E c \in Colors, x \in Xs, y \in TextYs, text \in Texts :
            /\ Return("DrawText", c, <<x, y, text>>, DrawText(buffer, c, x, y, text))
            /\ UNCHANGED latest

SpecText == InitCircle /\ [][OneDrawText]_vars

-----------------------------------------------------------------------------
(* IntersectRects on its own: every pair of rectangles with coordinates up  *)
(* to MaxCoord, empty and inverted ones included                            *)

Coords == 0 .. MaxCoord

Rects == [left : Coords, top : Coords, right : Coords, bottom : Coords]

\* what the caller's LSRect holds before the call
Unwritten == [left |-> -1, top |-> -1, right |-> -1, bottom |-> -1]

OneIntersectRects ==
    nCalls = 0 /\ \E r1 \in Rects, r2 \in Rects :
        /\ ret' = IntersectRects(r1, r2, Unwritten)
        /\ call' = [op |-> "IntersectRects", color |-> ZeroPixel, args |-> <<r1, r2>>]
        /\ nCalls' = nCalls + 1
        /\ UNCHANGED <<buffer, srcBuffer, before, touched, srcRead, initial, latest, visited,
                       sLastBufferID, heap, shell>>

NextRects == OneIntersectRects

SpecRects == InitComposite /\ [][NextRects]_vars

-----------------------------------------------------------------------------
(* Sequences of NewGraphBuffer and DeleteGraphBuffer calls from the start   *)
(* of the process; malloc() may fail; a handle is deleted at most once      *)

\* no buffer has been made: the counter is 0 and only storage of the caller
\* exists; the drawing state is not used
InitHeap ==
    /\ buffer \in {b \in InitialBuffers : b.width = 3 /\ b.ptr[0] = ZeroPixel}
    /\ srcBuffer = SourceBuffer
    /\ call = Idle
    /\ before = EmptyHeap
    /\ touched = {}
    /\ srcRead = {}
    /\ ret = NULL
    /\ initial = buffer.ptr
    /\ latest = [p \in Points(buffer) |-> ZeroPixel]
    /\ nCalls = 0
    /\ visited = <<>>
    /\ sLastBufferID = U32(0)
    /\ heap = EmptyHeap
    /\ shell = NotStarted

HeapNewGraphBuffer ==
    nCalls < MaxHeapCalls /\ \E memory \in {NULL, CallerBlock}, recordOk \in BOOLEAN,
                                 pixelsOk \in BOOLEAN :
        LET r == NewGraphBuffer(sLastBufferID, heap, memory, recordOk, pixelsOk)
        IN  /\ sLastBufferID' = r.sLastBufferID
            /\ heap' = r.heap
            /\ ret' = r.ret
            /\ call' = [op |-> "NewGraphBuffer", color |-> ZeroPixel, args |-> <<memory>>]
            /\ before' = heap
            /\ nCalls' = nCalls + 1
            /\ UNCHANGED <<buffer, srcBuffer, touched, srcRead, initial, latest, visited, shell>>

HeapDeleteGraphBuffer ==
    nCalls < MaxHeapCalls /\ \E handle \in {NULL} \cup DOMAIN heap.handles :
        /\ handle # NULL => ~heap.handles[handle].deleted
        /\ heap' = DeleteGraphBuffer(heap, handle)
        /\ ret' = NULL
        /\ call' = [op |-> "DeleteGraphBuffer", color |-> ZeroPixel, args |-> <<handle>>]
        /\ before' = heap
        /\ nCalls' = nCalls + 1
        /\ UNCHANGED <<buffer, srcBuffer, touched, srcRead, initial, latest, visited,
                       sLastBufferID, shell>>

NextHeap == HeapNewGraphBuffer \/ HeapDeleteGraphBuffer

SpecHeap == InitHeap /\ [][NextHeap]_vars

-----------------------------------------------------------------------------
(* Buffers on storage NewGraphBuffer allocates: NewGraphBuffer(NULL, width,  *)
(* height, rowPixels, size) with rows of up to one more slot than MaxSide    *)
(* and a size of 0, of width * height pixels or of rowPixels * height        *)
(* pixels, and then one PutPixel or GetPixel call                           *)

\* the GraphicsBuffer the call returns when both malloc calls succeed: size bytes
\* of storage, set to 0; aborted when the assert is compiled in (no NDEBUG) and
\* size is below sizeof(Pixel) * width * height
AllocatedBuffer(width, height, rowPixels, size, ndebug) ==
    [aborted |-> ~ndebug /\ size < 4 * width * height,
     width |-> width, height |-> height, rowPixels |-> rowPixels, size |-> size,
     ptr |-> ZeroStorage(size \div 4)]

InitAlloc ==
    /\ \E width \in 1 .. MaxSide, height \in 1 .. MaxSide, pad \in 0 .. 1, ndebug \in BOOLEAN :
          \E size \in {0, 4 * width * height, 4 * (width + pad) * height} :
              /\ buffer = AllocatedBuffer(width, height, width + pad, size, ndebug)
              /\ ~buffer.aborted
    /\ srcBuffer = SourceBuffer
    /\ call = Idle
    /\ before = buffer.ptr
    /\ touched = {}
    /\ srcRead = {}
    /\ ret = ZeroPixel
    /\ initial = buffer.ptr
    /\ latest = [p \in Points(buffer) |-> ZeroPixel]
    /\ nCalls = 0
    /\ visited = <<>>
    /\ sLastBufferID = NewGraphBuffer(U32(0), EmptyHeap, NULL, TRUE, TRUE).sLastBufferID
    /\ heap = NewGraphBuffer(U32(0), EmptyHeap, NULL, TRUE, TRUE).heap
    /\ shell = NotStarted

NextAlloc == OnePutPixel \/ OneGetPixel

SpecAlloc == InitAlloc /\ [][NextAlloc]_vars

-----------------------------------------------------------------------------
(* main of the SDL shell, with an application whose callbacks return what   *)
(* they like, a clock that moves on by 1 to MaxTickStep between readings    *)
(* and up to MaxEvents events in an iteration                               *)

\* a step of main that leaves the shell as sh
ShellStep(sh) ==
    /\ shell' = sh
    /\ UNCHANGED <<buffer, srcBuffer, call, before, touched, srcRead, ret, initial, latest,
                   nCalls, visited, sLastBufferID, heap>>

\* main up to the call of MainLoop: Setup fails before FinchInit, or FinchInit
\* returns false, and main returns -1; or Setup succeeds
MainSetup ==
    /\ shell.pc = "main"
    /\ \E failed \in {"InitSDL", "CreateWindow", "CreateRenderer", "malloc", "nothing"},
          ok \in BOOLEAN :
          ShellStep(IF failed # "nothing" THEN [shell EXCEPT !.pc = "returned", !.exit = -1]
                    ELSE IF ok THEN [Callback(shell, "FinchInit", ok) EXCEPT !.pc = "MainLoop"]
                    ELSE [Callback(shell, "FinchInit", ok) EXCEPT !.pc = "returned",
                                                                  !.exit = -1])

\* MainLoop up to the do: Render(state); lastTicks = SDL_GetTicks();
MainLoopEnter ==
    /\ shell.pc = "MainLoop"
    /\ ShellStep([Callback(shell, "FinchRenderProc", TRUE) EXCEPT
                      !.pc = "PollEvent", !.frame = 1, !.polled = 0, !.lastTicks = shell.ticks])

\* while( PollEvent( &evt ) ) FinchHandleEvent(&evt, state->userData);
MainPollEvent ==
    /\ shell.pc = "PollEvent"
    /\ \E result \in BOOLEAN :
          /\ result => shell.polled < MaxEvents
          /\ ShellStep(IF result
                       THEN [Callback(shell, "FinchHandleEvent", TRUE) EXCEPT !.polled = @ + 1]
                       ELSE [shell EXCEPT !.pc = "Render"])

\* SDL_Delay(1); Render(state); ticks = SDL_GetTicks(); elapsed = ticks - lastTicks;
\* if(elapsed > MIN_TICKS_PER_FRAME) { FinchUpdate(...); lastTicks = ticks; }
MainRender ==
    /\ shell.pc = "Render"
    /\ \E step \in 1 .. MaxTickStep :
          LET ticks == shell.ticks + step
              elapsed == ticks - shell.lastTicks
              rendered == [Callback(shell, "FinchRenderProc", TRUE) EXCEPT
                              !.ticks = ticks, !.pc = "FinchDone"]
          IN  ShellStep(IF elapsed > MIN_TICKS_PER_FRAME
                        THEN [Callback(rendered, "FinchUpdate", TRUE) EXCEPT !.lastTicks = ticks]
                        ELSE rendered)

\* while(!FinchDone(state->userData));
MainFinchDone ==
    /\ shell.pc = "FinchDone"
    /\ \E done \in BOOLEAN :
          /\ ~done => shell.frame < MaxFrames
          /\ ShellStep(IF done THEN [Callback(shell, "FinchDone", done) EXCEPT !.pc = "Cleanup"]
                       ELSE [Callback(shell, "FinchDone", done) EXCEPT
                                !.pc = "PollEvent", !.frame = @ + 1, !.polled = 0])

\* Cleanup(&state); return 0;
MainCleanup ==
    /\ shell.pc = "Cleanup"
    /\ ShellStep([Callback(shell, "FinchCleanup", TRUE) EXCEPT !.pc = "returned", !.exit = 0])

NextMain ==
    \/ MainSetup
    \/ MainLoopEnter
    \/ MainPollEvent
    \/ MainRender
    \/ MainFinchDone
    \/ MainCleanup

SpecMain == InitComposite /\ [][NextMain]_vars

-----------------------------------------------------------------------------
(* Sequences of PutPixel calls *)

MorePutPixel ==
    nCalls < MaxCalls /\ \E c \in Colors, x \in Xs, y \in Ys :
        /\ Return("PutPixel", c, <<x, y>>, PutPixel(buffer, c, x, y))
        /\ latest' = Latest(c, x, y)

NextPut == MorePutPixel

SpecPut == Init /\ [][NextPut]_vars

-----------------------------------------------------------------------------
(* Sequences of the calls that composite, on a buffer with padding whose    *)
(* slots all differ, with corners and centers before, inside and past the   *)
(* buffer.  Of a call the name is kept, not the arguments.                  *)

SeqXs == {-Margin, 1, buffer.width + Margin - 1}
SeqYs == {-Margin, 1, buffer.height + Margin - 1}
SeqPoints == { <<-Margin, -Margin>>, <<1, 1>>,
               <<buffer.width + Margin - 1, buffer.height + Margin - 1>> }
SeqOffsets == { <<-(srcBuffer.width - 1), -(srcBuffer.height - 1)>>, <<0, 0>>,
                <<buffer.width - 1, buffer.height - 1>>, <<-1, 1>>, <<1, -1>> }

InitBlend == Init /\ buffer.width = 2 /\ buffer.height = 2 /\ buffer.ptr[0] # ZeroPixel

BlendDrawHorzLine ==
    nCalls < MaxCalls /\ \E c \in Colors, x1 \in SeqXs, x2 \in SeqXs, y \in SeqYs :
        SeqReturn("DrawHorzLine", DrawHorzLine(buffer, c, x1, x2, y))

BlendDrawVertLine ==
    nCalls < MaxCalls /\ \E c \in Colors, y1 \in SeqYs, y2 \in SeqYs, x \in SeqXs :
        SeqReturn("DrawVertLine", DrawVertLine(buffer, c, y1, y2, x))

BlendDrawLineComposite ==
    nCalls < MaxCalls /\ \E c \in Colors, p \in SeqPoints, q \in SeqPoints :
        SeqReturn("DrawLineComposite", DrawLineComposite(buffer, c, p[1], p[2], q[1], q[2]))

BlendDrawRect ==
    nCalls < MaxCalls /\ \E c \in Colors, p \in SeqPoints, q \in SeqPoints :
        SeqReturn("DrawRect", DrawRect(buffer, c, p[1], p[2], q[1], q[2]))

BlendDrawCircle ==
    nCalls < MaxCalls /\ \E c \in Colors, p \in SeqPoints, r \in Radii :
        SeqReturn("DrawCircle", DrawCircle(buffer, c, p[1], p[2], r))

BlendFillCircle ==
    nCalls < MaxCalls /\ \E c \in Colors, p \in SeqPoints, r \in Radii :
        SeqReturn("FillCircle", FillCircle(buffer, c, p[1], p[2], r))

BlendBlitGraphBufferComposite ==
    nCalls < MaxCalls /\ \E o \in SeqOffsets :
        SeqReturn("BlitGraphBufferComposite",
                  BlitGraphBufferComposite(srcBuffer, buffer, o[1], o[2]))

NextBlend ==
    \/ BlendDrawHorzLine
    \/ BlendDrawVertLine
    \/ BlendDrawLineComposite
    \/ BlendDrawRect
    \/ BlendDrawCircle
    \/ BlendFillCircle
    \/ BlendBlitGraphBufferComposite

SpecBlend == InitBlend /\ [][NextBlend]_vars

-----------------------------------------------------------------------------
(* What the claims are stated with *)

Min(a, b) == IF a < b THEN a ELSE b
Max(a, b) == IF a > b THEN a ELSE b

\* storage[y * stride + x]
PixelAt(b, mem, x, y) == mem[y * b.rowPixels + x]

\* (x, y) lies in the rectangle after its bounds are put in order, right and
\* bottom exclusive
InRect(x, y, left, top, right, bottom) ==
    /\ Min(left, right) <= x /\ x < Max(left, right)
    /\ Min(top, bottom) <= y /\ y < Max(top, bottom)

\* the storage slots that are no pixel of the buffer (padding)
Padding(b) == DOMAIN b.ptr \ ValidIndices(b)

PaddingKept == \A i \in Padding(buffer) : buffer.ptr[i] = before[i]

-----------------------------------------------------------------------------
(* C1: FillRectOpaque(color, left, top, right, bottom) sets exactly the     *)
(* pixels of the buffer inside the normalized rectangle to color, for any   *)
(* signed coordinates, and leaves every other pixel unchanged.              *)
C1_FillRectOpaqueClips ==
    call.op = "FillRectOpaque" =>
        /\ \A p \in Points(buffer) :
              PixelAt(buffer, buffer.ptr, p[1], p[2]) =
                  IF InRect(p[1], p[2], call.args[1], call.args[2], call.args[3], call.args[4])
                  THEN call.color
                  ELSE PixelAt(buffer, before, p[1], p[2])
        /\ PaddingKept

(* C2: ClearBuffer(buffer, color) overwrites every pixel of the buffer with *)
(* color, whatever the shape of the buffer.                                 *)
C2_ClearBufferFillsAll ==
    call.op = "ClearBuffer" =>
        \A p \in Points(buffer) : PixelAt(buffer, buffer.ptr, p[1], p[2]) = call.color

(* C3: after any sequence of PutPixel calls GetPixel returns, for every     *)
(* pixel of the buffer, the color of the most recent PutPixel at exactly    *)
(* that pixel, or its initial value; an in-bounds PutPixel changes only     *)
(* storage[y*stride+x] and an out-of-bounds one changes nothing.            *)
C3_PutPixelLatest ==
    /\ \A p \in Points(buffer) : GetPixel(buffer, p[1], p[2]).ret = latest[p]
    /\ \A i \in Padding(buffer) : buffer.ptr[i] = initial[i]
    /\ call.op = "PutPixel" =>
          buffer.ptr = IF InBounds(buffer, call.args[1], call.args[2])
                       THEN [before EXCEPT ![call.args[2] * buffer.rowPixels + call.args[1]] =
                                 call.color]
                       ELSE before

\* a pixel was put twice with different colors, another call went out of bounds
C3_Witness ==
    /\ nCalls >= 2
    /\ call.op = "PutPixel"
    /\ InBounds(buffer, call.args[1], call.args[2])
    /\ before[call.args[2] * buffer.rowPixels + call.args[1]] # call.color
    /\ before # initial
    /\ buffer.rowPixels > buffer.width

(* C4: GetPixel returns 0 without reading storage for every coordinate      *)
(* outside the buffer, and storage[y*stride+x] otherwise.                   *)
C4_GetPixel ==
    call.op = "GetPixel" =>
        IF InBounds(buffer, call.args[1], call.args[2])
        THEN ret = buffer.ptr[call.args[2] * buffer.rowPixels + call.args[1]]
        ELSE ret = ZeroPixel /\ touched = {}

\* a read one column right of a padded row whose next slot holds a pixel
C4_Witness ==
    /\ call.op = "GetPixel"
    /\ call.args[1] = buffer.width
    /\ call.args[2] = 0
    /\ buffer.rowPixels > buffer.width
    /\ buffer.ptr[buffer.width] # ZeroPixel
    /\ ret = ZeroPixel

(* C5: every storage index a drawing call reads or writes in the target    *)
(* buffer is y*stride+x of a pixel of the buffer, whatever the coordinates, *)
(* offsets and radii; padding slots are never modified.                     *)
C5_AccessesInBounds ==
    /\ touched \subseteq ValidIndices(buffer)
    /\ PaddingKept

\* a run that starts left of a padded buffer and ends right of it was drawn
C5_Witness ==
    /\ call.op = "DrawHorzLine"
    /\ call.args[1] < 0
    /\ call.args[2] >= buffer.width
    /\ buffer.rowPixels > buffer.width
    /\ Cardinality(touched) = buffer.width
    /\ buffer.ptr # before

\* the pixel of the source that the blit at offset (x, y) lays over (dx, dy)
SourceOver(dx, dy, x, y) == PixelAt(srcBuffer, srcBuffer.ptr, dx - x, dy - y)

(* C6: BlitGraphBuffer(src, dst, x, y) sets dst(dx,dy) = src(dx-x, dy-y)    *)
(* wherever the translated source covers the destination, for every signed  *)
(* offset, and leaves every other destination pixel unchanged.              *)
C6_BlitGraphBufferCopies ==
    call.op = "BlitGraphBuffer" =>
        /\ \A p \in Points(buffer) :
              PixelAt(buffer, buffer.ptr, p[1], p[2]) =
                  IF InBounds(srcBuffer, p[1] - call.args[1], p[2] - call.args[2])
                  THEN SourceOver(p[1], p[2], call.args[1], call.args[2])
                  ELSE PixelAt(buffer, before, p[1], p[2])
        /\ PaddingKept

(* C7: BlitGraphBufferComposite(src, dst, x, y) replaces dst(dx,dy) by      *)
(* LSCompositePixels(src(dx-x, dy-y), dst(dx,dy)) wherever the translated    *)
(* source covers the destination, for every signed offset, and leaves every *)
(* other destination pixel unchanged; under a source pixel with alpha 0 the *)
(* destination pixel keeps all its bits.                                    *)
C7_BlitGraphBufferComposite ==
    call.op = "BlitGraphBufferComposite" =>
        /\ \A p \in Points(buffer) :
              LET old == PixelAt(buffer, before, p[1], p[2])
                  new == PixelAt(buffer, buffer.ptr, p[1], p[2])
              IN  IF InBounds(srcBuffer, p[1] - call.args[1], p[2] - call.args[2])
                  THEN LET sp == SourceOver(p[1], p[2], call.args[1], call.args[2])
                       IN  /\ new = LSCompositePixels(sp, old)
                           /\ sp[4] = 0 => new = old
                  ELSE new = old
        /\ PaddingKept

\* a source hanging over the left edge was composited, a transparent source
\* pixel over a destination pixel that is not 0
C7_Witness ==
    /\ call.op = "BlitGraphBufferComposite"
    /\ call.args[1] < 0
    /\ buffer.ptr # before
    /\ \E p \in Points(buffer) :
          /\ InBounds(srcBuffer, p[1] - call.args[1], p[2] - call.args[2])
          /\ SourceOver(p[1], p[2], call.args[1], call.args[2])[4] = 0
          /\ PixelAt(buffer, before, p[1], p[2]) # ZeroPixel

(* C8: when the translated source rectangle does not overlap the            *)
(* destination, BlitGraphBuffer and BlitGraphBufferComposite leave the      *)
(* destination unchanged and read no source pixel.                          *)
C8_BlitOutside ==
    (/\ call.op \in {"BlitGraphBuffer", "BlitGraphBufferComposite"}
     /\ \/ call.args[1] >= buffer.width
        \/ call.args[2] >= buffer.height
        \/ call.args[1] <= -srcBuffer.width
        \/ call.args[2] <= -srcBuffer.height)
    => buffer.ptr = before /\ srcRead = {}

\* the source lay past the right edge of a destination that holds pixels
C8_Witness ==
    /\ call.op = "BlitGraphBufferComposite"
    /\ call.args[1] > buffer.width
    /\ call.args[2] = 0
    /\ buffer.ptr[0] # ZeroPixel

(* C9: LSCompositePixels(src, dst) is dst in all four channels when the     *)
(* alpha of src is 0, and the R, G, B of src with the alpha of dst when the *)
(* alpha of src is 255.                                                     *)
C9_CompositeEnds ==
    call.op = "LSCompositePixels" =>
        /\ call.color[4] = 0 => ret = call.args
        /\ call.color[4] = 255 =>
              ret = <<call.color[1], call.color[2], call.color[3], call.args[4]>>

\* an opaque source over a destination of another color and another alpha
C9_Witness ==
    /\ call.op = "LSCompositePixels"
    /\ call.color[4] = 255
    /\ call.args[4] = 200
    /\ call.color[1] < call.args[1]
    /\ ret # call.args
    /\ ret # call.color

(* C10: a sequence of composited drawing calls leaves the alpha byte of     *)
(* every pixel of the destination buffer as it was before the sequence.     *)
C10_AlphaKept ==
    \A i \in DOMAIN buffer.ptr : buffer.ptr[i][4] = initial[i][4]

\* two calls were made and a pixel holds a blend: neither its first color nor
\* the color of a call
C10_Witness ==
    /\ nCalls >= 2
    /\ \E i \in ValidIndices(buffer) :
          /\ buffer.ptr[i] # initial[i]
          /\ \A c \in Colors : <<buffer.ptr[i][1], buffer.ptr[i][2], buffer.ptr[i][3]>> #
                                   <<c[1], c[2], c[3]>>

(* C11: for channel values a, b and a mask m in 0..255 the uint32_t result *)
(* of LSCompositeValues, (m*(a-b) + 255*b) / 255 with a-b wrapping around    *)
(* when a < b, is the truncated quotient (a*m + b*(255-m)) / 255; it lies    *)
(* between min(a,b) and max(a,b) and so fits in 8 bits.                      *)
C11_CompositeValue ==
    call.op = "LSCompositeValues" =>
        LET a == call.args[1]
            b == call.args[2]
            m == call.args[3]
        IN  /\ ret = <<0, (a * m + b * (255 - m)) \div 255>>
            /\ Min(a, b) <= ret[2] /\ ret[2] <= Max(a, b)
            /\ ret[2] < 256

\* a < b, so a-b wrapped around, and the mask took the result between them
C11_Witness ==
    /\ call.op = "LSCompositeValues"
    /\ call.args[1] < call.args[2]
    /\ call.args[3] = 128
    /\ ret[1] = 0
    /\ call.args[1] < ret[2] /\ ret[2] < call.args[2]

(* C12: Color2Values(MakeColorWithAlpha(r,g,b,a)) is (r,g,b,a),            *)
(* PixelComponents(MakeColor(r,g,b)) is (r,g,b), and MakeColor(r,g,b) is     *)
(* MakeColorWithAlpha(r,g,b,255).                                            *)
C12_ColorRoundTrip ==
    call.op = "MakeColor" =>
        /\ ret.values = call.args
        /\ ret.components = <<call.args[1], call.args[2], call.args[3]>>
        /\ ret.opaque = ret.opaqueWithAlpha

\* four different channel values, alpha not 255, went through and came back
C12_Witness ==
    /\ call.op = "MakeColor"
    /\ call.args = <<200, 15, 128, 127>>
    /\ ret.withAlpha = <<127 * 256 + 200, 15 * 256 + 128>>
    /\ ret.values = <<200, 15, 128, 127>>
    /\ ret.opaque # ret.withAlpha

(* C13: DrawVertLine is the transpose of DrawHorzLine.  For x1 <= x2 and   *)
(* 0 <= y < height DrawHorzLine composites color over exactly the pixels     *)
(* (x, y) with max(x1,0) <= x <= min(x2,width-1); for y1 <= y2 and           *)
(* 0 <= x < width DrawVertLine composites color over exactly the pixels      *)
(* (x, y) with max(y1,0) <= y <= min(y2,height-1); runs that begin before    *)
(* the edge of the buffer (x1 < 0 <= x2, y1 < 0 <= y2) included.             *)
C13_VertLineTransposesHorzLine ==
    /\ (/\ call.op = "DrawHorzLine"
        /\ call.args[1] <= call.args[2]
        /\ 0 <= call.args[3] /\ call.args[3] < buffer.height)
       => \A p \in Points(buffer) :
             PixelAt(buffer, buffer.ptr, p[1], p[2]) =
                 IF /\ p[2] = call.args[3]
                    /\ Max(call.args[1], 0) <= p[1]
                    /\ p[1] <= Min(call.args[2], buffer.width - 1)
                 THEN LSCompositePixels(call.color, PixelAt(buffer, before, p[1], p[2]))
                 ELSE PixelAt(buffer, before, p[1], p[2])
    /\ (/\ call.op = "DrawVertLine"
        /\ call.args[1] <= call.args[2]
        /\ 0 <= call.args[3] /\ call.args[3] < buffer.width)
       => \A p \in Points(buffer) :
             PixelAt(buffer, buffer.ptr, p[1], p[2]) =
                 IF /\ p[1] = call.args[3]
                    /\ Max(call.args[1], 0) <= p[2]
                    /\ p[2] <= Min(call.args[2], buffer.height - 1)
                 THEN LSCompositePixels(call.color, PixelAt(buffer, before, p[1], p[2]))
                 ELSE PixelAt(buffer, before, p[1], p[2])

\* (x, y) lies on the outline of the rectangle with ordered bounds, right and
\* bottom exclusive
OnOutline(x, y, left, top, right, bottom) ==
    \/ x \in {left, right - 1} /\ top <= y /\ y < bottom
    \/ y \in {top, bottom - 1} /\ left <= x /\ x < right

(* C14: for a rectangle whose ordered bounds satisfy 0 <= left < right <=   *)
(* width and 0 <= top < bottom <= height, DrawRect composites color over     *)
(* exactly the pixels of the outline and leaves every other pixel unchanged, *)
(* whichever way round the corners are given.                                *)
C14_DrawRectOutline ==
    call.op = "DrawRect" =>
        LET left == Min(call.args[1], call.args[3])
            right == Max(call.args[1], call.args[3])
            top == Min(call.args[2], call.args[4])
            bottom == Max(call.args[2], call.args[4])
        IN  (/\ 0 <= left /\ left < right /\ right <= buffer.width
             /\ 0 <= top /\ top < bottom /\ bottom <= buffer.height)
            => \A p \in Points(buffer) :
                  PixelAt(buffer, buffer.ptr, p[1], p[2]) =
                      IF OnOutline(p[1], p[2], left, top, right, bottom)
                      THEN LSCompositePixels(call.color, PixelAt(buffer, before, p[1], p[2]))
                      ELSE PixelAt(buffer, before, p[1], p[2])

(* C15: DrawLine and DrawLineComposite from (x1,y1) to (x2,y2) end, and    *)
(* their loop comes to exactly max(|x2-x1|, |y2-y1|) points, one for each    *)
(* major-axis coordinate from the start inclusive to the end exclusive; a    *)
(* point is painted exactly when it is in the buffer, so the start is        *)
(* painted when in bounds, the end never, and equal endpoints paint nothing; *)
(* from (a,a) to (b,b) with a < b the points are exactly (i,i), a <= i < b.  *)
C15_LinePoints ==
    call.op \in {"DrawLine", "DrawLineComposite"} =>
        LET x1 == call.args[1]
            y1 == call.args[2]
            x2 == call.args[3]
            y2 == call.args[4]
            n == Max(Abs(x2 - x1), Abs(y2 - y1))
            byY == Abs(y2 - y1) > Abs(x2 - x1)
            from == IF byY THEN y1 ELSE x1
            to == IF byY THEN y2 ELSE x2
            proc == IF call.op = "DrawLine" THEN "LSCompositePixelsOpaque"
                    ELSE "LSCompositePixels"
        IN  /\ Len(visited) = n
            /\ \A k \in 1..n :
                  visited[k][IF byY THEN 2 ELSE 1] =
                      IF from < to THEN from + (k - 1) ELSE from - (k - 1)
            /\ n > 0 => visited[1] = <<x1, y1>>
            /\ <<x2, y2>> \notin Range(visited)
            /\ touched = {v[2] * buffer.rowPixels + v[1] :
                             v \in {w \in Range(visited) : InBounds(buffer, w[1], w[2])}}
            /\ \A p \in Points(buffer) :
                  PixelAt(buffer, buffer.ptr, p[1], p[2]) =
                      IF p \in Range(visited)
                      THEN CallProc(proc, call.color, PixelAt(buffer, before, p[1], p[2]))
                      ELSE PixelAt(buffer, before, p[1], p[2])
            /\ (x1 = y1 /\ x2 = y2 /\ x1 < x2) =>
                  Range(visited) = {<<i, i>> : i \in x1..(x2 - 1)}

\* a steep line drawn upwards from below the buffer: some of its points were
\* clipped, the others painted
C15_Witness ==
    /\ call.op = "DrawLineComposite"
    /\ call.args[2] - call.args[4] >= 3
    /\ Abs(call.args[1] - call.args[3]) \in {1, 2}
    /\ call.args[2] >= buffer.height
    /\ Len(visited) = call.args[2] - call.args[4]
    /\ touched # {}
    /\ Cardinality(touched) < Len(visited)
    /\ buffer.ptr # before

\* squared distance of (x, y) from the center of the last circle call
Dist2(x, y) ==
    (x - call.args[1]) * (x - call.args[1]) + (y - call.args[2]) * (y - call.args[2])

(* C16: FillCircle with an opaque color and a radius r >= 0 paints every    *)
(* pixel of the buffer with (x-xCenter)^2 + (y-yCenter)^2 <= r^2.           *)
C16_FillCircleSolid ==
    (call.op = "FillCircle" /\ call.color[4] = 255 /\ call.args[3] >= 0) =>
        \A p \in Points(buffer) :
            Dist2(p[1], p[2]) <= call.args[3] * call.args[3] =>
                /\ p[2] * buffer.rowPixels + p[1] \in touched
                /\ PixelAt(buffer, buffer.ptr, p[1], p[2]) =
                       LSCompositePixels(call.color, PixelAt(buffer, before, p[1], p[2]))

\* a disk of radius 5, cut by the left edge, was filled: a pixel on its rim
\* off the axes (3, 4, 5) was painted and a pixel of the buffer was left alone
C16_Witness ==
    /\ call.op = "FillCircle"
    /\ call.color[4] = 255
    /\ call.args[3] = 5
    /\ call.args[1] = 1
    /\ \E p \in Points(buffer) :
          /\ Dist2(p[1], p[2]) = call.args[3] * call.args[3]
          /\ p[1] # call.args[1] /\ p[2] # call.args[2]
          /\ p[2] * buffer.rowPixels + p[1] \in touched
    /\ \E p \in Points(buffer) : p[2] * buffer.rowPixels + p[1] \notin touched

(* C17: DrawCircle and FillCircle with a radius r >= 0 leave every pixel    *)
(* whose squared distance from the center exceeds r^2 + r as it was.        *)
C17_CircleStaysInside ==
    (call.op \in {"DrawCircle", "FillCircle"} /\ call.args[3] >= 0) =>
        \A p \in Points(buffer) :
            Dist2(p[1], p[2]) > call.args[3] * call.args[3] + call.args[3] =>
                /\ p[2] * buffer.rowPixels + p[1] \notin touched
                /\ PixelAt(buffer, buffer.ptr, p[1], p[2]) = PixelAt(buffer, before, p[1], p[2])

\* an outline of radius 3 or more was drawn: a pixel of the buffer beyond
\* r^2 was painted and a pixel beyond r^2 + r was there to be left alone
C17_Witness ==
    /\ call.op = "DrawCircle"
    /\ call.args[3] >= 3
    /\ buffer.ptr # before
    /\ \E p \in Points(buffer) :
          /\ Dist2(p[1], p[2]) > call.args[3] * call.args[3]
          /\ p[2] * buffer.rowPixels + p[1] \in touched
    /\ \E p \in Points(buffer) :
          Dist2(p[1], p[2]) > call.args[3] * call.args[3] + call.args[3]

\* the four corners of a rectangle
Corners(r) == {<<r.left, r.top>>, <<r.left, r.bottom>>, <<r.right, r.top>>, <<r.right, r.bottom>>}

(* C18: IntersectRects(r1, r2, sect) returns true exactly when some corner  *)
(* of r1 lies inside r2 or some corner of r2 lies inside r1 (right and       *)
(* bottom exclusive); when it returns true sect is (max of the lefts, max of *)
(* the tops, min of the rights, min of the bottoms), and when it returns     *)
(* false sect is not written.                                                *)
C18_IntersectRects ==
    call.op = "IntersectRects" =>
        LET r1 == call.args[1]
            r2 == call.args[2]
        IN  /\ ret.ret <=> \/ \E c \in Corners(r1) : LSPointInRect(c[1], c[2], r2)
                           \/ \E c \in Corners(r2) : LSPointInRect(c[1], c[2], r1)
            /\ ret.ret => ret.sect = [left |-> Max(r1.left, r2.left),
                                      top |-> Max(r1.top, r2.top),
                                      right |-> Min(r1.right, r2.right),
                                      bottom |-> Min(r1.bottom, r2.bottom)]
            /\ ~ret.ret => ret.sect = Unwritten

\* the handle that owns a block: the one whose record or owned storage it is
Owners(block) ==
    {i \in DOMAIN heap.handles :
        \/ heap.handles[i].self = block
        \/ heap.handles[i].ownsPtr /\ heap.handles[i].ptr = block}

(* C19: over any sequence of NewGraphBuffer and DeleteGraphBuffer calls in  *)
(* which a handle is deleted at most once, storage of the caller is never    *)
(* freed; storage NewGraphBuffer(NULL, ...) allocated is freed exactly once, *)
(* by the DeleteGraphBuffer of its own buffer and by nothing else;           *)
(* DeleteGraphBuffer(NULL) does nothing; a creation that fails to allocate   *)
(* the pixel storage returns NULL with the buffer record released.           *)
C19_Lifecycle ==
    /\ \A k \in DOMAIN heap.blocks :
          LET blk == heap.blocks[k]
          IN  /\ blk.kind = "caller" => blk.frees = 0
              /\ blk.kind = "pixels" =>
                    /\ Cardinality(Owners(k)) = 1
                    /\ \A i \in Owners(k) :
                          /\ heap.handles[i].ownsPtr /\ heap.handles[i].ptr = k
                          /\ blk.frees = IF heap.handles[i].deleted THEN 1 ELSE 0
                          /\ blk.freedBy \subseteq {i}
              /\ blk.kind = "GraphicsBuffer" =>
                    IF Owners(k) = {}
                    THEN blk.frees = 1 /\ blk.freedBy = {NULL}
                    ELSE \A i \in Owners(k) :
                            blk.frees = IF heap.handles[i].deleted THEN 1 ELSE 0
    /\ \A i \in DOMAIN heap.handles :
          ~heap.handles[i].ownsPtr => heap.handles[i].ptr = CallerBlock
    /\ (call.op = "DeleteGraphBuffer" /\ call.args[1] = NULL) => heap = before
    /\ (call.op = "NewGraphBuffer" /\ ret = NULL) =>
          /\ heap.handles = before.handles
          /\ \A k \in DOMAIN heap.blocks \ DOMAIN before.blocks : heap.blocks[k].frees = 1

\* a buffer on storage of the caller and a buffer on storage of its own were
\* made and both deleted, and a creation failed at the pixel storage
C19_Witness ==
    /\ \E i, j \in DOMAIN heap.handles :
          /\ heap.handles[i].deleted /\ ~heap.handles[i].ownsPtr
          /\ heap.handles[j].deleted /\ heap.handles[j].ownsPtr
          /\ heap.blocks[heap.handles[j].ptr].frees = 1
    /\ \E k \in DOMAIN heap.blocks : heap.blocks[k].freedBy = {NULL}
    /\ heap.blocks[CallerBlock].frees = 0

(* C20: buffer ids are unique and strictly increasing in creation order     *)
(* over any interleaving of NewGraphBuffer calls, successful or failed, and  *)
(* DeleteGraphBuffer calls: a buffer gets an id greater than that of every   *)
(* buffer made before it, deleted or not; ids start at 1.                    *)
C20_IdsIncrease ==
    /\ \A i, j \in DOMAIN heap.handles :
          i < j => ULt(heap.handles[i].id, heap.handles[j].id)
    /\ \A i \in DOMAIN heap.handles :
          /\ UGe(heap.handles[i].id, U32(1))
          /\ heap.handles[i].attempt = 1 => heap.handles[i].id = U32(1)
          /\ ~UGt(heap.handles[i].id, sLastBufferID)

\* a buffer was made and deleted, a creation failed, and a later buffer has a
\* greater id than both
C20_Witness ==
    /\ Len(heap.handles) >= 2
    /\ heap.handles[1].deleted
    /\ heap.handles[1].id = U32(1)
    /\ heap.attempts > Len(heap.handles)
    /\ heap.handles[2].attempt > heap.handles[1].attempt + 1
    /\ heap.handles[2].id = U32(heap.handles[2].attempt)

-----------------------------------------------------------------------------
(* Rectangles: the outline once, and inside the rectangle *)

(* C25: a DrawRect call composites the color over each pixel at most once,  *)
(* whatever the size of the rectangle: every pixel of the buffer is as it    *)
(* was or is the color composited once over what it was.                    *)
C25_DrawRectOnce ==
    call.op = "DrawRect" =>
        \A i \in DOMAIN buffer.ptr :
            \/ buffer.ptr[i] = before[i]
            \/ buffer.ptr[i] = LSCompositePixels(call.color, before[i])

(* C26: DrawRect writes only pixels (x,y) with min(left,right) <= x <        *)
(* max(left,right) and min(top,bottom) <= y < max(top,bottom); a rectangle   *)
(* with left = right or top = bottom leaves the buffer as it was, as         *)
(* FillRectOpaque does with the same arguments.                             *)
C26_DrawRectInside ==
    call.op = "DrawRect" =>
        LET left == Min(call.args[1], call.args[3])
            right == Max(call.args[1], call.args[3])
            top == Min(call.args[2], call.args[4])
            bottom == Max(call.args[2], call.args[4])
            b0 == [buffer EXCEPT !.ptr = before]
        IN  /\ \A p \in Points(buffer) :
                  p[2] * buffer.rowPixels + p[1] \in touched
                      => InRect(p[1], p[2], left, top, right, bottom)
            /\ touched \subseteq ValidIndices(buffer)
            /\ (left = right \/ top = bottom) =>
                  /\ touched = {}
                  /\ buffer.ptr = before
                  /\ buffer.ptr = FillRectOpaque(b0, call.color, call.args[1], call.args[2],
                                                 call.args[3], call.args[4]).ptr

-----------------------------------------------------------------------------
(* Circles: outline and disc *)

\* the columns of the pixels of row y among the indices written
ColumnsWritten(written, y) ==
    {x \in 0 .. buffer.width - 1 : y * buffer.rowPixels + x \in written}

\* the pixels DrawCircle writes when given the buffer and the arguments of the
\* last call
Outline ==
    Range(DrawCircle([buffer EXCEPT !.ptr = before], call.color,
                     call.args[1], call.args[2], call.args[3]).log)

(* C27, as claimed: for every center and radius r >= 0, every pixel          *)
(* DrawCircle writes is written by FillCircle, and on every row the leftmost *)
(* and the rightmost pixel FillCircle writes are pixels DrawCircle writes.   *)
C27_OutlineBoundsDisc ==
    call.op = "FillCircle" =>
        LET outline == Outline
        IN  /\ outline \subseteq touched
            /\ \A y \in 0 .. buffer.height - 1 :
                  LET disc == ColumnsWritten(touched, y)
                  IN  \A x \in disc :
                          (\/ \A x2 \in disc : x <= x2
                           \/ \A x2 \in disc : x >= x2)
                              => y * buffer.rowPixels + x \in outline

(* C27, amended: ... on every row the leftmost pixel FillCircle writes is a  *)
(* pixel DrawCircle writes, or it is in the first column of a buffer the     *)
(* circle reaches beyond on the left; and the rightmost one is a pixel       *)
(* DrawCircle writes, or it is in the last column of a buffer the circle     *)
(* reaches beyond on the right.                                             *)
C27_OutlineBoundsClippedDisc ==
    call.op = "FillCircle" =>
        LET outline == Outline
        IN  /\ outline \subseteq touched
            /\ \A y \in 0 .. buffer.height - 1 :
                  LET disc == ColumnsWritten(touched, y)
                  IN  \A x \in disc :
                          /\ (\A x2 \in disc : x <= x2)
                                => \/ y * buffer.rowPixels + x \in outline
                                   \/ x = 0 /\ call.args[1] - call.args[3] < 0
                          /\ (\A x2 \in disc : x >= x2)
                                => \/ y * buffer.rowPixels + x \in outline
                                   \/ x = buffer.width - 1
                                      /\ call.args[1] + call.args[3] > buffer.width - 1

\* a disc of radius 5 around (1, 4): on the row of the center it begins in column
\* 0, which the outline does not come to, and ends in column 6, which it does
C27_Witness ==
    /\ call.op = "FillCircle"
    /\ call.args = <<1, 4, 5>>
    /\ ColumnsWritten(touched, 4) = 0 .. 6
    /\ ColumnsWritten(Outline, 4) = {6}

-----------------------------------------------------------------------------
(* Allocated storage *)

-----------------------------------------------------------------------------
(* Rectangles that share a pixel *)

(* C29: for rectangles with left < right and top < bottom, IntersectRects    *)
(* returns true exactly when the two share a pixel, that is when the greater *)
(* left is below the lesser right and the greater top below the lesser      *)
(* bottom; a true result comes with a sect that is not empty; and the result *)
(* is the same with the two arguments exchanged.                            *)
C29_IntersectRectsOverlap ==
    call.op = "IntersectRects" =>
        LET r1 == call.args[1]
            r2 == call.args[2]
            wellFormed == /\ r1.left < r1.right /\ r1.top < r1.bottom
                          /\ r2.left < r2.right /\ r2.top < r2.bottom
            overlap == /\ Max(r1.left, r2.left) < Min(r1.right, r2.right)
                       /\ Max(r1.top, r2.top) < Min(r1.bottom, r2.bottom)
        IN  wellFormed =>
                /\ ret.ret <=> overlap
                /\ ret.ret => ret.sect.left < ret.sect.right /\ ret.sect.top < ret.sect.bottom
                /\ ret = IntersectRects(r2, r1, Unwritten)

-----------------------------------------------------------------------------
(* Lines: the rounding *)

Sign(v) == IF v < 0 THEN -1 ELSE IF v > 0 THEN 1 ELSE 0

(* C24: with D = max(|dx|,|dy|) and d = min(|dx|,|dy|), the k-th point the  *)
(* line loop comes to (k = 0..D-1) is k along the major axis and            *)
(* floor((2*d*k + D) / (2*D)) along the minor axis from (x1,y1), each in the *)
(* direction of travel: the ideal line rounded to nearest, a tie going on    *)
(* along the minor axis; consecutive points differ by 1 in the major and by  *)
(* at most 1 in the minor coordinate.                                       *)
C24_LineRounding ==
    call.op \in {"DrawLine", "DrawLineComposite"} =>
        LET x1 == call.args[1]
            y1 == call.args[2]
            dx == call.args[3] - x1
            dy == call.args[4] - y1
            steep == Abs(dy) > Abs(dx)
            D == Max(Abs(dx), Abs(dy))
            d == Min(Abs(dx), Abs(dy))
            Minor(k) == (2 * d * k + D) \div (2 * D)
        IN  /\ Len(visited) = D
            /\ \A k \in 0 .. D - 1 :
                  visited[k + 1] =
                      IF steep THEN <<x1 + Sign(dx) * Minor(k), y1 + Sign(dy) * k>>
                      ELSE <<x1 + Sign(dx) * k, y1 + Sign(dy) * Minor(k)>>
            /\ \A k \in 1 .. D - 1 :
                  LET major == IF steep THEN 2 ELSE 1
                      minor == IF steep THEN 1 ELSE 2
                  IN  /\ Abs(visited[k + 1][major] - visited[k][major]) = 1
                      /\ Abs(visited[k + 1][minor] - visited[k][minor]) <= 1

\* a steep line drawn upwards and to the left, twice as tall as wide: its second
\* point is half way between two columns and is put in the one further on
C24_Witness ==
    /\ call.op = "DrawLine"
    /\ call.args[3] - call.args[1] = -2
    /\ call.args[4] - call.args[2] = -4
    /\ Len(visited) = 4
    /\ visited[2] = <<call.args[1] - 1, call.args[2] - 1>>
    /\ visited[4] = <<call.args[1] - 2, call.args[2] - 3>>

-----------------------------------------------------------------------------
(* Text *)

\* the pixel (px, py) is a set bit of the glyph of a character of s that the
\* font has, the i-th character (from 0) standing at (x + 8 * i, y)
InGlyph(px, py, x, y, s, len) ==
    \E i \in 0 .. len - 1 :
        /\ s[i + 1] >= 32 /\ s[i + 1] <= 126
        /\ px - (x + 8 * i) \in 0 .. 7
        /\ py - y \in 0 .. 7
        /\ (font8x8_basic[s[i + 1] - 32][py - y] \div (2 ^ (7 - (px - (x + 8 * i))))) % 2 = 1

(* C21: DrawText(buffer, color, x, y, s) leaves the buffer as the calls of  *)
(* DrawChar for the i-th character at (x + 8*i, y) leave it; a character     *)
(* outside 32..126 draws nothing and still takes its cell of 8 pixels; every *)
(* pixel written lies in [x, x + 8*len(s)) x [y, y + 8), is a set bit of a   *)
(* glyph and holds the color as given (alpha included, not blended); a NULL  *)
(* or empty string changes nothing.                                         *)
C21_DrawText ==
    call.op = "DrawText" =>
        LET x == call.args[1]
            y == call.args[2]
            text == call.args[3]
            len == IF text.null THEN 0 ELSE Len(text.chars) - 1
            s == text.chars
            b0 == [buffer EXCEPT !.ptr = before]
            Cell(i) == {p \in Points(buffer) : /\ p[1] - (x + 8 * i) \in 0 .. 7
                                               /\ p[2] - y \in 0 .. 7}
            Index(p) == p[2] * buffer.rowPixels + p[1]
        IN  /\ \A i \in 0 .. len - 1 :
                  LET d == DrawChar(b0, call.color, x + 8 * i, y, s[i + 1])
                  IN  /\ \A p \in Cell(i) : /\ buffer.ptr[Index(p)] = d.ptr[Index(p)]
                                            /\ Index(p) \in touched <=> Index(p) \in Range(d.log)
                      /\ Range(d.log) \subseteq {Index(p) : p \in Cell(i)}
                      /\ Range(d.log) \subseteq touched
            /\ \A p \in Points(buffer) \ UNION {Cell(i) : i \in 0 .. len - 1} :
                  Index(p) \notin touched /\ buffer.ptr[Index(p)] = before[Index(p)]
            /\ len = 0 => buffer.ptr = before /\ touched = {}
            /\ touched \subseteq ValidIndices(buffer)
            /\ \A p \in Points(buffer) :
                  LET i == p[2] * buffer.rowPixels + p[1]
                  IN  IF InGlyph(p[1], p[2], x, y, s, len)
                      THEN /\ i \in touched
                           /\ buffer.ptr[i] = call.color
                           /\ p[1] >= x /\ p[1] < x + 8 * len
                           /\ p[2] >= y /\ p[2] < y + 8
                      ELSE i \notin touched /\ buffer.ptr[i] = before[i]
            /\ \A i \in Padding(buffer) : buffer.ptr[i] = before[i]

\* a half transparent text of a character above the font's range and then a
\* character of the font, whose glyph, one cell to the right, is partly in the
\* buffer; and the pixels of the first cell are as they were
C21_Witness ==
    /\ call.op = "DrawText"
    /\ call.color[4] = 128
    /\ ~call.args[3].null
    /\ call.args[3].chars = <<127, 32, 0>>
    /\ call.args[1] = 0
    /\ touched # {}
    /\ \A p \in Points(buffer) :
          p[1] < 8 => buffer.ptr[p[2] * buffer.rowPixels + p[1]] = before[p[2] * buffer.rowPixels + p[1]]

-----------------------------------------------------------------------------
(* The callbacks of the shell *)

\* the positions in the log of the calls of cb made in iteration f
CallsIn(f, cb) == {k \in DOMAIN shell.log : shell.log[k].frame = f /\ shell.log[k].cb = cb}

(* C22: in every iteration of the main loop that has come to its FinchDone  *)
(* check, the callbacks ran in the documented order: FinchHandleEvent for    *)
(* the events, then FinchUpdate exactly once, then FinchRenderProc exactly   *)
(* once, then FinchDone exactly once.                                       *)
C22_CallbackOrder ==
    \A f \in 1 .. shell.frame :
        CallsIn(f, "FinchDone") # {} =>
            /\ Cardinality(CallsIn(f, "FinchUpdate")) = 1
            /\ Cardinality(CallsIn(f, "FinchRenderProc")) = 1
            /\ Cardinality(CallsIn(f, "FinchDone")) = 1
            /\ \A h \in CallsIn(f, "FinchHandleEvent"), u \in CallsIn(f, "FinchUpdate") : h < u
            /\ \A u \in CallsIn(f, "FinchUpdate"), r \in CallsIn(f, "FinchRenderProc") : u < r
            /\ \A r \in CallsIn(f, "FinchRenderProc"), d \in CallsIn(f, "FinchDone") : r < d

\* the positions in the log of the calls of cb
Calls(cb) == {k \in DOMAIN shell.log : shell.log[k].cb = cb}

(* C23: when main has returned, FinchInit was called exactly once and before *)
(* every other callback, FinchCleanup was called exactly once and after     *)
(* every other callback, and the loop ended at the first FinchDone check    *)
(* that returned true: that check is the only one that did, and the last.   *)
C23_InitFirstCleanupLast ==
    shell.pc = "returned" =>
        /\ Calls("FinchInit") = {1}
        /\ Calls("FinchCleanup") = {Len(shell.log)}
        /\ \A k \in Calls("FinchDone") :
              shell.log[k].result <=> (\A j \in Calls("FinchDone") : j <= k)
        /\ \E k \in Calls("FinchDone") : shell.log[k].result

=============================================================================
